---------------------------- MODULE Spec2Model ----------------------------
(***************************************************************************)
(* zk-fuzz-lab: the differential-execution engine.                         *)
(*                                                                         *)
(* The model follows the three programs of the repository:                 *)
(*   - the native runner (src/runners/native), one worker thread per call; *)
(*   - the SP1 runner (src/runners/sp1), one worker thread per call;       *)
(*   - the harness (src/harness), which starts the two runners as          *)
(*     subprocesses, calls the oracle (src/oracles/rust_eq) and logs,      *)
(*     once (harness run) or for every mutated input of a core's           *)
(*     catalogue (harness fuzz, with src/mutators/source_mut).             *)
(*                                                                         *)
(* Numbers.  TLC's integers are 32 bits wide and signed, so a u32 or u64   *)
(* of the program is a little-endian tuple of bytes (4 or 8 of them), the  *)
(* form bincode gives it in the public-values stream.  A serde_json number *)
(* is Number::PosInt(u64): a tuple of 8 bytes.                             *)
(***************************************************************************)
EXTENDS Integers, Sequences, FiniteSets, TLC

(***************************************************************************)
(* Bounds of the model (not program constants).                            *)
(***************************************************************************)
\* measured wall times are drawn from 0..MaxElapsedMs
MaxElapsedMs == 1
\* --num-commits given on the sp1-runner command line is drawn from 0..MaxNumCommitsArg
MaxNumCommitsArg == 4
\* the oracle is applied to commit sequences of length 0..MaxCommitsLen
MaxCommitsLen == 2
\* how many calls of generate_mutations one behaviour of MutatorSpec makes
MaxMutatorCalls == 2
\* how many mutations of a core's catalogue a fuzz batch is followed through
MaxFuzzMutations == 2
\* the seconds the wall clock can advance
MaxClock == 1
\* how many comparisons one behaviour of LogSpec logs
MaxComparisons == 2
\* the largest n the loop of fib run is followed for: above the period of the
\* pairs (a, b), which divides 7918
MaxFibIterations == 8000

(***************************************************************************)
(* Little-endian byte arithmetic.                                          *)
(***************************************************************************)
Zeros(n) == [i \in 1..n |-> 0]

\* the 4 bytes of a u32 below 2^31
LE4(n) == << n % 256, (n \div 256) % 256, (n \div 65536) % 256, (n \div 16777216) % 256 >>

\* the value of a byte tuple known to be below 2^31
RECURSIVE LEToNat(_)
LEToNat(x) == IF x = <<>> THEN 0 ELSE Head(x) + 256 * LEToNat(Tail(x))

IsZero(x) == \A i \in 1..Len(x) : x[i] = 0

\* x + y + c of two tuples of one length; the carry out is the last element
RECURSIVE AddLE(_, _, _)
AddLE(x, y, c) ==
    IF x = <<>> THEN << c >>
    ELSE LET s == Head(x) + Head(y) + c
         IN  << s % 256 >> \o AddLE(Tail(x), Tail(y), s \div 256)

\* x - y - b of two tuples of one length; the borrow out is the last element
RECURSIVE SubLE(_, _, _)
SubLE(x, y, b) ==
    IF x = <<>> THEN << b >>
    ELSE LET d == Head(x) - Head(y) - b
         IN  << (d + 256) % 256 >> \o SubLE(Tail(x), Tail(y), IF d < 0 THEN 1 ELSE 0)

\* x * d + c for one byte d; one byte longer than x
RECURSIVE MulByteLE(_, _, _)
MulByteLE(x, d, c) ==
    IF x = <<>> THEN << c >>
    ELSE LET p == Head(x) * d + c
         IN  << p % 256 >> \o MulByteLE(Tail(x), d, p \div 256)

\* the exact product of two u32, as 8 bytes
RECURSIVE MulLE(_, _)
MulLE(x, y) ==
    IF y = <<>> THEN Zeros(Len(x))
    ELSE LET low  == MulByteLE(x, Head(y), 0)              \* Len(x) + 1 bytes
             rest == MulLE(x, Tail(y))                     \* Len(x) + Len(y) - 1 bytes
             n    == Len(rest) + 1
             a    == low \o Zeros(n - Len(low))
             b    == << 0 >> \o rest
         IN  SubSeq(AddLE(a, b, 0), 1, n)

\* x >= y for two tuples of one length
GeqLE(x, y) == SubLE(x, y, 0)[Len(x) + 1] = 0

\* how often y fits into r (r < 256 * y), and what is left: the quotient's bits
\* from 2^k down to 2^0; r has one byte more than y
RECURSIVE DivStep(_, _, _, _)
DivStep(r, y, k, q) ==
    IF k < 0 THEN [q |-> q, r |-> r]
    ELSE LET m == MulByteLE(y, 2 ^ k, 0)
         IN  IF GeqLE(r, m)
             THEN DivStep(SubSeq(SubLE(r, m, 0), 1, Len(r)), y, k - 1, q + 2 ^ k)
             ELSE DivStep(r, y, k - 1, q)

\* long division of x by y # 0 in base 256, most significant byte first;
\* r is the running remainder, one byte longer than y
RECURSIVE DivLE(_, _, _, _)
DivLE(x, y, i, r) ==
    IF i = 0 THEN <<>>
    ELSE LET shifted == << x[i] >> \o SubSeq(r, 1, Len(r) - 1)
             st      == DivStep(shifted, y, 7, 0)
         IN  DivLE(x, y, i - 1, st.r) \o << st.q >>

(***************************************************************************)
(* The cores (src/guest/cores).  An input file is a JSON document; schema  *)
(* names the core whose input record it decodes as ("garbage": none).      *)
(***************************************************************************)
RegisteredCores == { "fib", "panic_test", "timeout_test", "io_echo", "arithmetic", "simple_struct" }

U32Max == << 255, 255, 255, 255 >>

\* 2^32 as a u64
TwoTo32 == << 0, 0, 0, 0, 1, 0, 0, 0 >>

\* a string is the tuple of its chars, each char given by the number of bytes
\* of its UTF-8 form: 4 is a crab emoji, 1 an ASCII letter
FibInputs == { [schema |-> "fib", n |-> LE4(k)] : k \in { 0, 1, 10 } }

PanicInputs ==
    { [schema |-> "panic_test", should_panic |-> p, panic_msg |-> m] :
        p \in BOOLEAN, m \in { <<>>, << "Custom error message" >> } }

TimeoutInputs ==
    { [schema |-> "timeout_test", iterations |-> i] :
        i \in { Zeros(8), LE4(100) \o Zeros(4), TwoTo32 } }

IoEchoInputs ==
    { [schema |-> "io_echo", data |-> d] : d \in { <<>>, << 42 >>, << 0, 7, 255 >> } }

ArithmeticInputs ==
    { [schema |-> "arithmetic", a |-> t[1], b |-> t[2], operation |-> t[3]] :
        t \in { << U32Max, LE4(1), "add" >>, << LE4(0), LE4(1), "sub" >>,
                << LE4(65536), LE4(65536), "mul" >>, << LE4(20), LE4(10), "div" >>,
                << LE4(1), LE4(0), "div" >>, << LE4(1), LE4(1), "modulo" >> } }

SimpleStructInputs ==
    { [schema |-> "simple_struct", field1 |-> t[1], field2 |-> t[2], field3 |-> t[3]] :
        t \in { << LE4(1), << 4, 1, 1, 1, 1, 1 >>, TRUE >>,
                << LE4(0), <<>>, FALSE >>,
                << U32Max, << 1, 1, 1 >>, TRUE >> } }

GarbageInput == [schema |-> "garbage"]

InputsOf(core) ==
    CASE core = "fib"           -> FibInputs
      [] core = "panic_test"    -> PanicInputs
      [] core = "timeout_test"  -> TimeoutInputs
      [] core = "io_echo"       -> IoEchoInputs
      [] core = "arithmetic"    -> ArithmeticInputs
      [] core = "simple_struct" -> SimpleStructInputs
      [] OTHER                  -> {}

\* serde_json::from_slice into the core's input record
DecodeOk(core, input) == input.schema = core

Returns(out) == [kind |-> "returns", out |-> out]
\* payload: the type of the panic payload, "str" for panic!("literal") and
\* "String" for a formatted message
Panics(msg, payload) == [kind |-> "panics", msg |-> msg, payload |-> payload]
Diverges == [kind |-> "diverges"]

\* n steps of (a, b) := (b, (a + b) mod 7919)
RECURSIVE FibLoop(_, _, _)
FibLoop(n, a, b) == IF n = 0 THEN << a, b >> ELSE FibLoop(n - 1, b, (a + b) % 7919)

\* run with the loop taken once more than n times
fib_run_one_more(input) ==
    LET ab == FibLoop(LEToNat(input.n) + 1, 0, 1)
    IN  Returns([n |-> input.n, a |-> LE4(ab[1]), b |-> LE4(ab[2])])

fib_run(input) ==
    LET ab == FibLoop(LEToNat(input.n), 0, 1)
    IN  Returns([n |-> input.n, a |-> LE4(ab[1]), b |-> LE4(ab[2])])

panic_test_run(input) ==
    IF input.should_panic
    THEN Panics(IF input.panic_msg = <<>> THEN "Intentional panic for testing"
                ELSE input.panic_msg[1], "String")
    ELSE Returns([should_panic_u32 |-> IF input.should_panic THEN LE4(1) ELSE LE4(0),
                  status_code |-> LE4(0)])

timeout_test_run(input) ==
    IF IsZero(input.iterations) THEN Diverges
    ELSE Returns([completed |-> input.iterations])

io_echo_run(input) ==
    LET n == Len(input.data)
    IN  Returns([length     |-> LE4(n),
                 first_byte |-> IF n = 0 THEN <<>> ELSE << input.data[1] >>,
                 last_byte  |-> IF n = 0 THEN <<>> ELSE << input.data[n] >>])

\* run with add, sub and mul that stop at the ends of the u32 range
arithmetic_run_saturating(input) ==
    CASE input.operation = "add" ->
           LET r == AddLE(input.a, input.b, 0)
           IN  Returns([result |-> IF r[5] # 0 THEN << 255, 255, 255, 255 >> ELSE SubSeq(r, 1, 4),
                        overflowed |-> r[5] # 0])
      [] input.operation = "sub" ->
           LET r == SubLE(input.a, input.b, 0)
           IN  Returns([result |-> IF r[5] # 0 THEN Zeros(4) ELSE SubSeq(r, 1, 4),
                        overflowed |-> r[5] # 0])
      [] input.operation = "mul" ->
           LET r == MulLE(input.a, input.b)
           IN  Returns([result |-> IF IsZero(SubSeq(r, 5, 8)) THEN SubSeq(r, 1, 4)
                                   ELSE << 255, 255, 255, 255 >>,
                        overflowed |-> ~IsZero(SubSeq(r, 5, 8))])
      [] input.operation = "div" ->
           IF IsZero(input.b) THEN Panics("Division by zero", "str")
           ELSE Returns([result |-> DivLE(input.a, input.b, 4, Zeros(5)), overflowed |-> FALSE])
      [] OTHER -> Panics("Unknown operation: " \o input.operation, "String")

arithmetic_run(input) ==
    CASE input.operation = "add" ->
           LET r == AddLE(input.a, input.b, 0)
           IN  Returns([result |-> SubSeq(r, 1, 4), overflowed |-> r[5] # 0])
      [] input.operation = "sub" ->
           LET r == SubLE(input.a, input.b, 0)
           IN  Returns([result |-> SubSeq(r, 1, 4), overflowed |-> r[5] # 0])
      [] input.operation = "mul" ->
           LET r == MulLE(input.a, input.b)
           IN  Returns([result |-> SubSeq(r, 1, 4), overflowed |-> ~IsZero(SubSeq(r, 5, 8))])
      [] input.operation = "div" ->
           IF IsZero(input.b) THEN Panics("Division by zero", "str")
           ELSE Returns([result |-> DivLE(input.a, input.b, 4, Zeros(5)), overflowed |-> FALSE])
      [] OTHER -> Panics("Unknown operation: " \o input.operation, "String")

RECURSIVE SumSeq(_)
SumSeq(x) == IF x = <<>> THEN 0 ELSE Head(x) + SumSeq(Tail(x))

simple_struct_run(input) ==
    Returns([field1_echo  |-> input.field1,
             field2_len   |-> LE4(SumSeq(input.field2)),
             field2_chars |-> LE4(Len(input.field2)),
             field3_echo  |-> input.field3])

\* the core function of a registered core on a decoded input
CoreRun(core, input) ==
    CASE core = "fib"           -> fib_run(input)
      [] core = "panic_test"    -> panic_test_run(input)
      [] core = "timeout_test"  -> timeout_test_run(input)
      [] core = "io_echo"       -> io_echo_run(input)
      [] core = "arithmetic"    -> arithmetic_run(input)
      [] core = "simple_struct" -> simple_struct_run(input)

(***************************************************************************)
(* Timing.  The code measures elapsed time; the model measures none.  A    *)
(* call of a core is "fast" (over long before any deadline), "long" (it    *)
(* ends, before or after the deadline) or "diverges".  Only timeout_test   *)
(* has a loop whose count the input sets freely (a u64): the model takes   *)
(* a count of 2^32 or more as long, and a count of 0 never ends.           *)
(***************************************************************************)
CostClass(core, input) ==
    IF core = "timeout_test"
    THEN IF IsZero(input.iterations) THEN "diverges"
         ELSE IF ~IsZero(SubSeq(input.iterations, 5, 8)) THEN "long" ELSE "fast"
    ELSE "fast"

(***************************************************************************)
(* Commit values.                                                          *)
(***************************************************************************)
\* serde_json::to_value(&u32): Number::PosInt(v as u64)
ToValueU32(b4) == b4 \o Zeros(4)

\* serde_json::to_value(&u64): Number::PosInt(v)
ToValueU64(b8) == b8

\* bool as u32: 0 for false, 1 for true
BoolToU32(f) == IF f THEN LE4(1) ELSE LE4(0)

\* Option<u8> as u32 without the shift by one: Some(b) as b
OptionU8ToU32Unshifted(o) == IF o = <<>> THEN LE4(0) ELSE LE4(o[1])

\* Option<u8> as u32: 0 for None, 1 + value for Some
OptionU8ToU32(o) == IF o = <<>> THEN LE4(0) ELSE LE4(1 + o[1])

\* the Vec<Value> run_core_dispatch builds from the core's output
NativeCommits(core, out) ==
    CASE core = "fib" ->
           << ToValueU32(out.n), ToValueU32(out.a), ToValueU32(out.b) >>
      [] core = "panic_test" ->
           << ToValueU32(out.should_panic_u32), ToValueU32(out.status_code) >>
      [] core = "timeout_test" ->
           << ToValueU64(out.completed) >>
      [] core = "io_echo" ->
           << ToValueU32(out.length), ToValueU32(OptionU8ToU32(out.first_byte)),
              ToValueU32(OptionU8ToU32(out.last_byte)) >>
      [] core = "arithmetic" ->
           << ToValueU32(out.result), ToValueU32(BoolToU32(out.overflowed)) >>
      [] core = "simple_struct" ->
           << ToValueU32(out.field1_echo), ToValueU32(out.field2_len),
              ToValueU32(out.field2_chars), ToValueU32(BoolToU32(out.field3_echo)) >>

\* the values a guest adapter commits, in order; each sp1_zkvm::io::commit appends
\* the bincode form of its argument: 4 bytes for a u32, 8 for a u64
GuestCommitList(core, out) ==
    CASE core = "fib"           -> << out.n, out.a, out.b >>
      [] core = "panic_test"    -> << out.should_panic_u32, out.status_code >>
      [] core = "timeout_test"  -> << out.completed >>
      [] core = "io_echo"       ->
           << out.length,
              IF out.first_byte = <<>> THEN LE4(0) ELSE LE4(1 + out.first_byte[1]),
              IF out.last_byte = <<>> THEN LE4(0) ELSE LE4(1 + out.last_byte[1]) >>
      [] core = "arithmetic"    ->
           << out.result, IF out.overflowed THEN LE4(1) ELSE LE4(0) >>
      [] core = "simple_struct" ->
           << out.field1_echo, out.field2_len, out.field2_chars,
              IF out.field3_echo THEN LE4(1) ELSE LE4(0) >>

RECURSIVE Flatten(_)
Flatten(ss) == IF ss = <<>> THEN <<>> ELSE Head(ss) \o Flatten(Tail(ss))

\* the public-values stream a guest leaves when it runs to its end
GuestStream(core, out) == Flatten(GuestCommitList(core, out))

(***************************************************************************)
(* The oracle (src/oracles/rust_eq).                                       *)
(***************************************************************************)
Statuses == { "Ok", "Panic", "Timeout" }

\* meta is a JSON object; a key that is absent is the empty tuple
Meta(runner, mode, panic_msg, timeout_secs, cycles) ==
    [runner |-> runner, mode |-> mode, panic_msg |-> panic_msg,
     timeout_secs |-> timeout_secs, cycles |-> cycles]

RunResult(status, elapsed_ms, commits, meta) ==
    [status |-> status, elapsed_ms |-> elapsed_ms, commits |-> commits, meta |-> meta]

\* u128::abs_diff
AbsDiff(x, y) == IF x >= y THEN x - y ELSE y - x

\* compare with step 2 taken whatever the status: the commits always count
compare_commits_always(native, zkvm) ==
    IF native.status # zkvm.status
    THEN [equal |-> FALSE,
          reason |-> << [prefix |-> "status mismatch", native_status |-> native.status,
                         zkvm_status |-> zkvm.status] >>,
          timing_delta_ms |-> << AbsDiff(native.elapsed_ms, zkvm.elapsed_ms) >>]
    ELSE IF native.commits # zkvm.commits
    THEN [equal |-> FALSE,
          reason |-> << [prefix |-> "commit stream mismatch", native_commits |-> native.commits,
                         zkvm_commits |-> zkvm.commits] >>,
          timing_delta_ms |-> << AbsDiff(native.elapsed_ms, zkvm.elapsed_ms) >>]
    ELSE [equal |-> TRUE, reason |-> <<>>,
          timing_delta_ms |-> << AbsDiff(native.elapsed_ms, zkvm.elapsed_ms) >>]

\* compare that looks at the statuses alone
compare_status_only(native, zkvm) ==
    IF native.status # zkvm.status
    THEN [equal |-> FALSE,
          reason |-> << [prefix |-> "status mismatch", native_status |-> native.status,
                         zkvm_status |-> zkvm.status] >>,
          timing_delta_ms |-> << AbsDiff(native.elapsed_ms, zkvm.elapsed_ms) >>]
    ELSE [equal |-> TRUE, reason |-> <<>>,
          timing_delta_ms |-> << AbsDiff(native.elapsed_ms, zkvm.elapsed_ms) >>]

\* compare that gives a reason on every outcome
compare_reason_always(native, zkvm) ==
    IF native.status # zkvm.status
    THEN [equal |-> FALSE,
          reason |-> << [prefix |-> "status mismatch", native_status |-> native.status,
                         zkvm_status |-> zkvm.status] >>,
          timing_delta_ms |-> << AbsDiff(native.elapsed_ms, zkvm.elapsed_ms) >>]
    ELSE IF native.status = "Ok" /\ native.commits # zkvm.commits
    THEN [equal |-> FALSE,
          reason |-> << [prefix |-> "commit stream mismatch", native_commits |-> native.commits,
                         zkvm_commits |-> zkvm.commits] >>,
          timing_delta_ms |-> << AbsDiff(native.elapsed_ms, zkvm.elapsed_ms) >>]
    ELSE [equal |-> TRUE,
          reason |-> << [prefix |-> "equal", native_status |-> native.status,
                         zkvm_status |-> zkvm.status] >>,
          timing_delta_ms |-> << AbsDiff(native.elapsed_ms, zkvm.elapsed_ms) >>]

\* compare that records the timing only on a mismatch, as zkvm minus native
compare_timing_on_mismatch(native, zkvm) ==
    IF native.status # zkvm.status
    THEN [equal |-> FALSE,
          reason |-> << [prefix |-> "status mismatch", native_status |-> native.status,
                         zkvm_status |-> zkvm.status] >>,
          timing_delta_ms |-> << zkvm.elapsed_ms - native.elapsed_ms >>]
    ELSE IF native.status = "Ok" /\ native.commits # zkvm.commits
    THEN [equal |-> FALSE,
          reason |-> << [prefix |-> "commit stream mismatch", native_commits |-> native.commits,
                         zkvm_commits |-> zkvm.commits] >>,
          timing_delta_ms |-> << zkvm.elapsed_ms - native.elapsed_ms >>]
    ELSE [equal |-> TRUE, reason |-> <<>>, timing_delta_ms |-> <<>>]

\* compare for which two results that took different times are not equal
compare_timing_counts(native, zkvm) ==
    IF native.status # zkvm.status
    THEN [equal |-> FALSE,
          reason |-> << [prefix |-> "status mismatch", native_status |-> native.status,
                         zkvm_status |-> zkvm.status] >>,
          timing_delta_ms |-> << AbsDiff(native.elapsed_ms, zkvm.elapsed_ms) >>]
    ELSE IF native.status = "Ok" /\ native.commits # zkvm.commits
    THEN [equal |-> FALSE,
          reason |-> << [prefix |-> "commit stream mismatch", native_commits |-> native.commits,
                         zkvm_commits |-> zkvm.commits] >>,
          timing_delta_ms |-> << AbsDiff(native.elapsed_ms, zkvm.elapsed_ms) >>]
    ELSE [equal |-> native.elapsed_ms = zkvm.elapsed_ms, reason |-> <<>>,
          timing_delta_ms |-> << AbsDiff(native.elapsed_ms, zkvm.elapsed_ms) >>]

\* compare that lets a Timeout of the native side pass whatever the zkVM side gives
compare_native_timeout_passes(native, zkvm) ==
    IF native.status # zkvm.status /\ native.status # "Timeout"
    THEN [equal |-> FALSE,
          reason |-> << [prefix |-> "status mismatch", native_status |-> native.status,
                         zkvm_status |-> zkvm.status] >>,
          timing_delta_ms |-> << AbsDiff(native.elapsed_ms, zkvm.elapsed_ms) >>]
    ELSE IF native.status = "Ok" /\ native.commits # zkvm.commits
    THEN [equal |-> FALSE,
          reason |-> << [prefix |-> "commit stream mismatch", native_commits |-> native.commits,
                         zkvm_commits |-> zkvm.commits] >>,
          timing_delta_ms |-> << AbsDiff(native.elapsed_ms, zkvm.elapsed_ms) >>]
    ELSE [equal |-> TRUE, reason |-> <<>>,
          timing_delta_ms |-> << AbsDiff(native.elapsed_ms, zkvm.elapsed_ms) >>]

compare(native, zkvm) ==
    IF native.status # zkvm.status
    THEN [equal |-> FALSE,
          reason |-> << [prefix |-> "status mismatch", native_status |-> native.status,
                         zkvm_status |-> zkvm.status] >>,
          timing_delta_ms |-> << AbsDiff(native.elapsed_ms, zkvm.elapsed_ms) >>]
    ELSE IF native.status = "Ok" /\ native.commits # zkvm.commits
    THEN [equal |-> FALSE,
          reason |-> << [prefix |-> "commit stream mismatch", native_commits |-> native.commits,
                         zkvm_commits |-> zkvm.commits] >>,
          timing_delta_ms |-> << AbsDiff(native.elapsed_ms, zkvm.elapsed_ms) >>]
    ELSE [equal |-> TRUE, reason |-> <<>>,
          timing_delta_ms |-> << AbsDiff(native.elapsed_ms, zkvm.elapsed_ms) >>]

(***************************************************************************)
(* What a runner call hands back: Result<RunResult>.                       *)
(***************************************************************************)
OkResult(r) == [ok |-> TRUE, result |-> << r >>, err |-> ""]
ErrResult(msg) == [ok |-> FALSE, result |-> <<>>, err |-> msg]

\* the runner's --timeout default, in seconds
DefaultTimeoutSecs == 30

\* Duration::as_millis of Duration::from_secs
SecsToMillis(secs) == secs * 1000

\* #[serde(rename = ...)] of Status, and back
StatusToJson(st) ==
    CASE st = "Ok" -> "OK" [] st = "Panic" -> "PANIC" [] st = "Timeout" -> "TIMEOUT"

StatusFromJson(j) ==
    CASE j = "OK" -> "Ok" [] j = "PANIC" -> "Panic" [] j = "TIMEOUT" -> "Timeout"

\* serde_json::to_string_pretty(&result), written to stdout by a runner
RunResultToJson(r) ==
    [status |-> StatusToJson(r.status), elapsed_ms |-> r.elapsed_ms,
     commits |-> r.commits, meta |-> r.meta]

\* serde_json::from_slice(&output.stdout) in the harness
RunResultFromJson(j) ==
    [status |-> StatusFromJson(j.status), elapsed_ms |-> j.elapsed_ms,
     commits |-> j.commits, meta |-> j.meta]

\* a process that has ended: its exit code and what it wrote to stdout
ExitOf(outcome) ==
    IF outcome.ok THEN [code |-> 0, stdout |-> << RunResultToJson(outcome.result[1]) >>]
    ELSE [code |-> 1, stdout |-> <<>>]

(***************************************************************************)
(* The zkVM executor and the guest adapters (src/adapters/sp1_guest).      *)
(* The executor is the SP1 SDK, taken as opaque: it runs the guest         *)
(* faithfully, or fails, or hands back a stream that is one value short or *)
(* has one value changed (the divergences the harness exists to find).     *)
(***************************************************************************)
ExecModes == { "faithful", "error", "truncate", "corrupt" }

\* the guest's main: read the input, decode it (expect), run the core, commit
GuestRun(core, input) ==
    IF ~DecodeOk(core, input) THEN Panics("Failed to deserialize input", "String")
    ELSE CoreRun(core, input)

GuestCost(core, input) == IF DecodeOk(core, input) THEN CostClass(core, input) ELSE "fast"

\* whether client.execute(..).run() comes back at all
ExecEnds(mode, core, input) == mode = "error" \/ GuestRun(core, input).kind # "diverges"

\* what client.execute(..).run() comes back with
ExecutionResult(mode, core, input) ==
    LET g == GuestRun(core, input)
    IN  IF mode = "error" THEN [ok |-> FALSE, stream |-> <<>>, err |-> "executor error"]
        ELSE IF g.kind = "panics" THEN [ok |-> FALSE, stream |-> <<>>, err |-> g.msg]
        ELSE LET st == GuestStream(core, g.out)
             IN  [ok |-> TRUE, err |-> "",
                  stream |-> CASE mode = "faithful" -> st
                               [] mode = "truncate" -> SubSeq(st, 1, Len(st) - 4)
                               [] mode = "corrupt"  -> << (st[1] + 1) % 256 >> \o Tail(st)]

\* public_values.read::<u32>(), n times: the n values, when the stream holds them
ReadU32s(stream, n) == [i \in 1..n |-> SubSeq(stream, 4 * i - 3, 4 * i)]

\* a read past the end of the stream panics
CanReadU32s(stream, n) == Len(stream) >= 4 * n

\* the commits of an Ok result: to_value of each u32 read
DecodeCommits(stream, n) == [i \in 1..n |-> ToValueU32(ReadU32s(stream, n)[i])]

\* a table that was not updated when simple_struct got its fourth commit
ExpectedCommitsStale(c) ==
    CASE c = "fib"           -> 3
      [] c = "panic_test"    -> 2
      [] c = "timeout_test"  -> 1
      [] c = "io_echo"       -> 3
      [] c = "arithmetic"    -> 2
      [] c = "simple_struct" -> 3
      [] OTHER               -> 0

\* Number of commits the harness passes for a core (0: no --num-commits)
ExpectedCommits(c) ==
    CASE c = "fib"           -> 3
      [] c = "panic_test"    -> 2
      [] c = "timeout_test"  -> 1
      [] c = "io_echo"       -> 3
      [] c = "arithmetic"    -> 2
      [] c = "simple_struct" -> 4
      [] OTHER               -> 0

(***************************************************************************)
(* The mutators (src/mutators/source_mut).  A mutation_op is a formatted   *)
(* string; the model keeps the values that are formatted into it.          *)
(***************************************************************************)
\* the 8 bytes of a u64 below 2^31
LE8(n) == LE4(n) \o Zeros(4)

\* Result<Vec<MutatedInput>>
MutOk(list) == [ok |-> TRUE, list |-> list, err |-> ""]
MutErr(msg) == [ok |-> FALSE, list |-> <<>>, err |-> msg]

MutatedInput(input_json, mutation_op, base_input_path) ==
    [input_json |-> input_json, mutation_op |-> mutation_op,
     base_input_path |-> base_input_path]

\* the numbers of a set in rising order
RECURSIVE SortedSet(_)
SortedSet(S) ==
    IF S = {} THEN <<>>
    ELSE LET least == CHOOSE x \in S : \A y \in S : x <= y
         IN  << least >> \o SortedSet(S \ { least })

\* powers_of_2, boundaries and edge_cases in one list, after sort_unstable and dedup
IoEchoAllSizes ==
    LET all_sizes ==
            << 0, 1, 2, 4, 8, 16, 32, 64, 128, 256, 512, 1024, 2048, 4096, 8192, 16384,
               32768, 65536, 131072, 262144, 524288, 1048576 >>
            \o << 127, 255, 1023, 4095, 65535 >>
            \o << 3, 7, 15, 31, 63 >>
    IN  SortedSet({ all_sizes[i] : i \in 1..Len(all_sizes) })

\* (0..size).map(|i| (i % 256) as u8), a vector of up to 1 MiB: the catalogue
\* keeps it by its rule, and ByteRamp gives its bytes
RampData(size) == [ramp |-> size]

ByteRamp(size) == [i \in 1..size |-> (i - 1) % 256]

\* size_desc that gives every size in whole kilobytes
IoEchoSizeDescWholeKb(size) == [kind |-> "length_bias", n |-> size \div 1024, unit |-> "kb"]

\* size_desc: the number and the unit formatted after "length_bias:"
IoEchoSizeDesc(size) ==
    IF size < 1024 THEN [kind |-> "length_bias", n |-> size, unit |-> "b"]
    ELSE IF size < 1048576 THEN [kind |-> "length_bias", n |-> size \div 1024, unit |-> "kb"]
    ELSE [kind |-> "length_bias", n |-> size \div 1048576, unit |-> "mb"]

\* the io_echo catalogue with the powers of two alone
generate_io_echo_mutations_powers_only(base_input, base_input_path) ==
    LET powers_of_2 == << 0, 1, 2, 4, 8, 16, 32, 64, 128, 256, 512, 1024, 2048, 4096, 8192,
                          16384, 32768, 65536, 131072, 262144, 524288, 1048576 >>
    IN  MutOk([k \in 1..Len(powers_of_2) |->
                 MutatedInput([schema |-> "io_echo", data |-> RampData(powers_of_2[k])],
                              IoEchoSizeDesc(powers_of_2[k]), base_input_path)])

generate_io_echo_mutations(base_input, base_input_path) ==
    MutOk([k \in 1..Len(IoEchoAllSizes) |->
             MutatedInput([schema |-> "io_echo", data |-> RampData(IoEchoAllSizes[k])],
                          IoEchoSizeDesc(IoEchoAllSizes[k]), base_input_path)])

ArithmeticOperations == << "add", "sub", "mul", "div" >>

\* 0, 1, 2, u32::MAX / 2, u32::MAX - 1, u32::MAX
ArithmeticBoundaryValues ==
    << LE4(0), LE4(1), LE4(2), << 255, 255, 255, 127 >>, << 254, 255, 255, 255 >>, U32Max >>

\* the number of entries after which the two inner loops are left: operations.len() * 6
ArithmeticCap == Len(ArithmeticOperations) * 6

\* the loops of generate_arithmetic_mutations from (operation o, a number i, b number j)
\* on, with the list built so far; a break leaves the b loop and then the a loop,
\* and the operation loop goes on
RECURSIVE ArithmeticLoop(_, _, _, _, _)
ArithmeticLoop(o, i, j, acc, base_input_path) ==
    LET n == Len(ArithmeticBoundaryValues)
    IN  IF o > Len(ArithmeticOperations) THEN acc
        ELSE IF i > n THEN ArithmeticLoop(o + 1, 1, 1, acc, base_input_path)
        ELSE IF j > n THEN
               IF Len(acc) >= ArithmeticCap
               THEN ArithmeticLoop(o + 1, 1, 1, acc, base_input_path)
               ELSE ArithmeticLoop(o, i + 1, 1, acc, base_input_path)
        ELSE LET a == ArithmeticBoundaryValues[i]
                 b == ArithmeticBoundaryValues[j]
                 op == ArithmeticOperations[o]
             IN  IF IsZero(a) /\ IsZero(b)
                 THEN ArithmeticLoop(o, i, j + 1, acc, base_input_path)
                 ELSE LET acc2 == Append(acc,
                                    MutatedInput([schema |-> "arithmetic", a |-> a, b |-> b,
                                                  operation |-> op],
                                                 [kind |-> "boundary_values", a |-> a, b |-> b,
                                                  op |-> op],
                                                 base_input_path))
                      IN  IF Len(acc2) >= ArithmeticCap
                          THEN ArithmeticLoop(o + 1, 1, 1, acc2, base_input_path)
                          ELSE ArithmeticLoop(o, i, j + 1, acc2, base_input_path)

generate_arithmetic_mutations(base_input, base_input_path) ==
    MutOk(ArithmeticLoop(1, 1, 1, <<>>, base_input_path))

\* "a".repeat(n): n chars of one byte each
Repeat1(n) == [i \in 1..n |-> 1]

\* the string cases: the string (its chars by their UTF-8 length) and its name
SimpleStructStringCases ==
    << << <<>>, "empty" >>,
       << Repeat1(1), "single" >>,
       << Repeat1(5), "short" >>,
       << Repeat1(100), "100chars" >>,
       << Repeat1(1000), "1000chars" >>,
       << Repeat1(10000), "10kchars" >>,
       << << 4 >>, "emoji" >>,
       << << 4 >> \o Repeat1(10), "unicode_mixed" >>,
       << Repeat1(11), "newline" >>,
       << Repeat1(13), "tab" >> >>

SimpleStructField1Values == << LE4(0), LE4(1), LE4(42), U32Max >>
SimpleStructField3Values == << TRUE, FALSE >>

generate_simple_struct_mutations(base_input, base_input_path) ==
    MutOk([k \in 1..Len(SimpleStructStringCases) |->
             MutatedInput(
               [schema |-> "simple_struct",
                field1 |-> SimpleStructField1Values[((k - 1) % Len(SimpleStructField1Values)) + 1],
                field2 |-> SimpleStructStringCases[k][1],
                field3 |-> SimpleStructField3Values[((k - 1) % Len(SimpleStructField3Values)) + 1]],
               [kind |-> "string_variation", desc |-> SimpleStructStringCases[k][2]],
               base_input_path)])

FibNValues == << 0, 1, 2, 5, 10, 20, 30, 40, 50, 100, 1000 >>

generate_fib_mutations(base_input, base_input_path) ==
    MutOk([k \in 1..Len(FibNValues) |->
             MutatedInput([schema |-> "fib", n |-> LE4(FibNValues[k])],
                          [kind |-> "fib_value", n |-> FibNValues[k]], base_input_path)])

PanicTestCases ==
    << << FALSE, "no_panic" >>, << TRUE, "panic_simple" >>,
       << TRUE, "panic_with_long_message" >>, << FALSE, "no_panic_alternate" >> >>

\* the input carries the message under the key panic_message
generate_panic_test_mutations(base_input, base_input_path) ==
    MutOk([k \in 1..Len(PanicTestCases) |->
             MutatedInput(
               [schema |-> "panic_test", should_panic |-> PanicTestCases[k][1],
                panic_message |-> IF PanicTestCases[k][1]
                                  THEN "Test panic: " \o PanicTestCases[k][2] ELSE ""],
               [kind |-> "bool_variation", desc |-> PanicTestCases[k][2]],
               base_input_path)])

TimeoutIterationCounts == << 0, 1, 10, 100, 1000, 10000, 100000, 1000000, 10000000 >>

generate_timeout_test_mutations(base_input, base_input_path) ==
    MutOk([k \in 1..Len(TimeoutIterationCounts) |->
             MutatedInput([schema |-> "timeout_test", iterations |-> LE8(TimeoutIterationCounts[k])],
                          [kind |-> "iteration_variation", iterations |-> TimeoutIterationCounts[k]],
                          base_input_path)])

\* input_json.get("data").and_then(|d| d.as_array()) and data.len(): the length
\* of the data array of an entry, None when it has no such key
DataArrayLen(input_json) ==
    IF "data" \in DOMAIN input_json THEN << input_json.data.ramp >> ELSE <<>>

\* the loop of calculate_size_stats from entry k on
RECURSIVE SizeStatsLoop(_, _, _, _)
SizeStatsLoop(mutations, k, min_size, max_size) ==
    IF k > Len(mutations) THEN [min_size |-> min_size, max_size |-> max_size]
    ELSE LET data == DataArrayLen(mutations[k].input_json)
         IN  IF data = <<>> THEN SizeStatsLoop(mutations, k + 1, min_size, max_size)
             ELSE LET size == data[1]
                  IN  SizeStatsLoop(mutations, k + 1,
                        IF min_size = <<>> THEN << size >>
                        ELSE IF min_size[1] <= size THEN min_size ELSE << size >>,
                        IF max_size = <<>> THEN << size >>
                        ELSE IF max_size[1] >= size THEN max_size ELSE << size >>)

calculate_size_stats(mutations) ==
    LET r == SizeStatsLoop(mutations, 1, <<>>, <<>>)
    IN  [total_count |-> Len(mutations), min_size |-> r.min_size, max_size |-> r.max_size,
         strategy |-> "length_bias"]

\* a generator that keeps the base input of fib as the first entry of the list
generate_mutations_keeping_base(core_name, base_input_json, base_input_path) ==
    CASE core_name = "io_echo" -> generate_io_echo_mutations(base_input_json, base_input_path)
      [] core_name = "arithmetic" -> generate_arithmetic_mutations(base_input_json, base_input_path)
      [] core_name = "simple_struct" ->
           generate_simple_struct_mutations(base_input_json, base_input_path)
      [] core_name = "fib" ->
           MutOk(<< MutatedInput(base_input_json, [kind |-> "fib_value", n |-> 0],
                                 base_input_path) >>
                 \o generate_fib_mutations(base_input_json, base_input_path).list)
      [] core_name = "panic_test" -> generate_panic_test_mutations(base_input_json, base_input_path)
      [] core_name = "timeout_test" ->
           generate_timeout_test_mutations(base_input_json, base_input_path)
      [] OTHER -> MutErr("Unknown core: " \o core_name)

generate_mutations(core_name, base_input_json, base_input_path) ==
    CASE core_name = "io_echo" -> generate_io_echo_mutations(base_input_json, base_input_path)
      [] core_name = "arithmetic" -> generate_arithmetic_mutations(base_input_json, base_input_path)
      [] core_name = "simple_struct" ->
           generate_simple_struct_mutations(base_input_json, base_input_path)
      [] core_name = "fib" -> generate_fib_mutations(base_input_json, base_input_path)
      [] core_name = "panic_test" -> generate_panic_test_mutations(base_input_json, base_input_path)
      [] core_name = "timeout_test" ->
           generate_timeout_test_mutations(base_input_json, base_input_path)
      [] OTHER -> MutErr("Unknown core: " \o core_name)

(***************************************************************************)
(* State.                                                                  *)
(***************************************************************************)
VARIABLES
    entry,          \* what was started: "run" (harness run), "fuzz" (harness fuzz),
                    \* "native_cli", "sp1_cli", "oracle", "mutators"
    core,           \* the core name (harness, native runner) or the guest the ELF was built from
    input,          \* the input file
    skip_build,     \* harness --skip-build
    timeoutArg,     \* the runners' --timeout, in seconds (0: none)
    numCommitsArg,  \* --num-commits given to sp1-runner: << >> or << n >>
    execMode,       \* how the executor behaves in this run
    hPc,            \* where the harness is
    builds,         \* how often the build tool was run
    hError,         \* the error the harness ended with, << >> if none
    nativeResult,   \* native_result of the harness, << >> before it is known
    sp1Result,      \* sp1_result of the harness
    diff,           \* the Diff compare returned
    jsonLogs,       \* artifacts/<run_id>.json files; content << >> while being written
    reproDirs,      \* artifacts/<run_id>/ folders
    csvFile,        \* artifacts/summary.csv, its rows in order
    clock,          \* Utc::now(), in seconds
    nPc,            \* native runner, main thread
    nWorker,        \* native runner, worker thread
    nChan,          \* native runner, the mpsc channel
    nOutcome,       \* native runner, the local `result`
    nExit,          \* native runner, the ended process
    nSteps,         \* native runner, what the worker has done so far, in order
    sPc, sWorker, sChan, sOutcome, sExit,  \* the same of the SP1 runner
    genCalls,       \* the calls of generate_mutations made, each with its arguments and result
    fibLoop,        \* a call of fib run followed step by step: n, the rounds done, a, b
    cores_to_fuzz,  \* harness fuzz: the cores still to fuzz, the current one first
    mutIdx,         \* harness fuzz: mutation_num of the loop over the mutations
    passed,         \* fuzz_single_core: the local `passed`
    divergences,    \* fuzz_single_core: the local `divergences`
    fuzzResults,    \* the FuzzResult each ended call of fuzz_single_core returned
    totals,         \* run_fuzzing: total_mutations, total_passed, total_divergences
    hRunId,         \* log_results: the local run_id, << >> outside of it
    oracleCalls     \* how often the harness has called compare

vars == << entry, core, input, skip_build, timeoutArg, numCommitsArg, execMode,
           hPc, builds, hError, nativeResult, sp1Result, diff, jsonLogs, reproDirs,
           csvFile, clock, nPc, nWorker, nChan, nOutcome, nExit, nSteps,
           sPc, sWorker, sChan, sOutcome, sExit, genCalls, fibLoop,
           cores_to_fuzz, mutIdx, passed, divergences, fuzzResults, totals,
           hRunId, oracleCalls >>

\* the library calls followed on their own
mutatorVars == << genCalls, fibLoop >>
tallyVars == << passed, divergences, fuzzResults, totals >>
fuzzVars == << cores_to_fuzz, mutIdx, tallyVars >>
auditVars == << hRunId, oracleCalls >>
\* what the runners and most steps of the harness leave alone
configVars == << entry, core, input, skip_build, timeoutArg, numCommitsArg, execMode, clock,
                 mutatorVars, fuzzVars, auditVars >>
harnessVars == << hPc, builds, hError, nativeResult, sp1Result, diff, jsonLogs, reproDirs, csvFile >>
nativeVars == << nPc, nWorker, nChan, nOutcome, nExit, nSteps >>
sp1Vars == << sPc, sWorker, sChan, sOutcome, sExit >>

MissingInput == [schema |-> "missing"]

\* the harness command runs: one comparison or a fuzz batch
InHarness == entry \in { "run", "fuzz" }

\* Option<Duration> of a runner: present when --timeout is above 0
HasTimeout == timeoutArg > 0

(***************************************************************************)
(* The native runner (src/runners/native/src/main.rs).                     *)
(***************************************************************************)
NativeMeta(panic_msg, timeout_secs) == Meta("native", "", panic_msg, timeout_secs, <<>>)

\* a Panic RunResult of the worker that carries a measured time
NativePanicResultTimed(msg) ==
    RunResult("Panic", MaxElapsedMs, <<>>, NativeMeta(<< msg >>, <<>>))

\* the RunResult the worker builds when the core panics
NativePanicResult(msg) == RunResult("Panic", 0, <<>>, NativeMeta(<< msg >>, <<>>))

\* extract_panic_message: the payload as text when it is a &str or a String
extract_panic_message(p) ==
    IF p.payload = "str" THEN p.msg
    ELSE IF p.payload = "String" THEN p.msg
    ELSE "Unknown panic"

\* a worker that hands the panic on as a runner-level error
NativePanicAsError(p) == ErrResult(extract_panic_message(p))

\* what the worker sends for a panic catch_unwind caught
NativePanicMessage(p) == OkResult(NativePanicResult(extract_panic_message(p)))

\* a worker that wraps an error of run_core_dispatch into a Panic RunResult
NativeDispatchErrorAsPanic(msg) == OkResult(NativePanicResult(msg))

\* what the worker sends when run_core_dispatch returns an error
NativeDispatchError(msg) == ErrResult(msg)

\* a timeout result that reports a zero commit for the run that did not end
NativeTimeoutResultWithCommits(secs) ==
    RunResult("Timeout", SecsToMillis(secs), << ToValueU32(Zeros(4)) >>,
              NativeMeta(<<>>, << secs >>))

\* the RunResult of an expired deadline
NativeTimeoutResult(secs) ==
    RunResult("Timeout", SecsToMillis(secs), <<>>, NativeMeta(<<>>, << secs >>))

\* main: read the input file, then run_core_with_safeguards spawns the worker
NativeMain ==
    /\ nPc = "main"
    /\ IF input = MissingInput
       THEN /\ nPc' = "exited"
            /\ nExit' = << [code |-> 1, stdout |-> <<>>] >>
            /\ UNCHANGED << nWorker, nChan, nOutcome, nSteps >>
       ELSE /\ nPc' = "recv"
            /\ nWorker' = "ready"
            /\ UNCHANGED << nChan, nOutcome, nExit, nSteps >>
    /\ UNCHANGED << configVars, harnessVars, sp1Vars >>

\* the worker enters run_core_dispatch: the core name is matched and the input decoded
NativeWorkerDispatch ==
    /\ nWorker = "ready"
    /\ IF core \notin RegisteredCores
       THEN /\ nChan' = Append(nChan, NativeDispatchError("Unknown core: " \o core))
            /\ nWorker' = "finished"
       ELSE IF ~DecodeOk(core, input)
       THEN /\ nChan' = Append(nChan, NativeDispatchError("input decoding failed"))
            /\ nWorker' = "finished"
       ELSE /\ nWorker' = "running"
            /\ UNCHANGED nChan
    /\ nSteps' = nSteps \o (IF core \in RegisteredCores
                             THEN << "Instant::now", "from_slice" >>
                             ELSE << "Instant::now" >>)
    /\ UNCHANGED << nPc, nOutcome, nExit, configVars, harnessVars, sp1Vars >>

\* the core returns or panics; the worker sends what catch_unwind gave and ends
NativeWorkerFinish ==
    /\ nWorker = "running"
    /\ LET r == CoreRun(core, input)
       IN  /\ r.kind # "diverges"
           /\ \E e \in 0..MaxElapsedMs :
                nChan' = Append(nChan,
                    IF r.kind = "returns"
                    THEN OkResult(RunResult("Ok", e, NativeCommits(core, r.out),
                                            NativeMeta(<<>>, <<>>)))
                    ELSE NativePanicMessage(r))
    /\ nSteps' = nSteps \o (IF CoreRun(core, input).kind = "returns"
                             THEN << "run", "to_value", "elapsed" >>
                             ELSE << "run" >>)
    /\ nWorker' = "finished"
    /\ UNCHANGED << nPc, nOutcome, nExit, configVars, harnessVars, sp1Vars >>

\* rx.recv_timeout / rx.recv hands over a message, or finds the sender gone
NativeRecv ==
    /\ nPc = "recv"
    /\ \/ nChan # <<>>
       \/ nChan = <<>> /\ nWorker = "panicked"
    /\ IF nChan # <<>>
       THEN /\ nOutcome' = << Head(nChan) >>
            /\ nChan' = Tail(nChan)
       ELSE /\ nOutcome' = << ErrResult("Runner thread disconnected") >>
            /\ UNCHANGED nChan
    /\ nPc' = "join"
    /\ UNCHANGED << nWorker, nExit, nSteps, configVars, harnessVars, sp1Vars >>

\* a deadline after which run_core_with_safeguards goes on receiving
NativeDeadlineKeepsReceiving ==
    /\ nPc = "recv"
    /\ HasTimeout
    /\ nChan = <<>>
    /\ nOutcome = <<>>
    /\ nWorker = "running"
    /\ CostClass(core, input) # "fast"
    /\ nOutcome' = << OkResult(NativeTimeoutResult(timeoutArg)) >>
    /\ UNCHANGED << nPc, nWorker, nChan, nExit, nSteps, configVars, harnessVars, sp1Vars >>

\* rx.recv_timeout gives RecvTimeoutError::Timeout: the core is still running
NativeDeadline ==
    /\ nPc = "recv"
    /\ HasTimeout
    /\ nChan = <<>>
    /\ nWorker = "running"
    /\ CostClass(core, input) # "fast"
    /\ nOutcome' = << OkResult(NativeTimeoutResult(timeoutArg)) >>
    /\ nPc' = "join"
    /\ UNCHANGED << nWorker, nChan, nExit, nSteps, configVars, harnessVars, sp1Vars >>

\* whether handle.join() comes back: the worker thread has ended
NativeJoinable == nWorker \in { "finished", "panicked" }

\* handle.join(), then the result goes back to main, which prints it or fails
NativeJoin ==
    /\ nPc = "join"
    /\ NativeJoinable
    /\ nPc' = "exited"
    /\ nExit' = << ExitOf(nOutcome[1]) >>
    /\ UNCHANGED << nWorker, nChan, nOutcome, nSteps, configVars, harnessVars, sp1Vars >>

(***************************************************************************)
(* The SP1 runner (src/runners/sp1/src/main.rs).                           *)
(***************************************************************************)
\* the --num-commits the harness puts on sp1-runner's command line
HarnessNumCommits(c) ==
    IF ExpectedCommits(c) > 0 THEN << ExpectedCommits(c) >> ELSE <<>>

\* num_commits of run_sp1_with_safeguards: Option<usize>
Sp1NumCommits == IF entry \in { "run", "fuzz" } THEN HarnessNumCommits(core) ELSE numCommitsArg

Sp1Meta(panic_msg, timeout_secs, cycles) == Meta("sp1", "execute", panic_msg, timeout_secs, cycles)

\* the RunResult of an executor error
Sp1PanicResult(e, msg) == RunResult("Panic", e, <<>>, Sp1Meta(<< msg >>, <<>>, <<>>))

\* a worker that hands the executor's error on as a runner-level error
Sp1ErrorPropagated(e, msg) == ErrResult(msg)

\* what the worker sends when execute returned an error
Sp1ErrorMessage(e, msg) == OkResult(Sp1PanicResult(e, msg))

\* the RunResult of an expired deadline
Sp1TimeoutResult(secs) ==
    RunResult("Timeout", SecsToMillis(secs), <<>>, Sp1Meta(<<>>, << secs >>, <<>>))

\* the RunResult of a run whose n reads all succeeded
Sp1OkResult(e, stream, n) ==
    RunResult("Ok", e, DecodeCommits(stream, n), Sp1Meta(<<>>, <<>>, << "reported" >>))

\* main: read the ELF and the input file, then run_sp1_with_safeguards spawns the worker
Sp1Main ==
    /\ sPc = "main"
    /\ IF input = MissingInput \/ core \notin RegisteredCores
       THEN /\ sPc' = "exited"
            /\ sExit' = << [code |-> 1, stdout |-> <<>>] >>
            /\ UNCHANGED << sWorker, sChan, sOutcome >>
       ELSE /\ sPc' = "recv"
            /\ sWorker' = "ready"
            /\ UNCHANGED << sChan, sOutcome, sExit >>
    /\ UNCHANGED << configVars, harnessVars, nativeVars >>

\* the worker writes stdin, makes the client and calls execute
Sp1WorkerExecute ==
    /\ sWorker = "ready"
    /\ sWorker' = "executing"
    /\ UNCHANGED << sPc, sChan, sOutcome, sExit, configVars, harnessVars, nativeVars >>

\* execute came back: the worker decodes the commits and sends the RunResult, or
\* panics on a read past the end of the stream and ends without sending
Sp1WorkerFinish ==
    /\ sWorker = "executing"
    /\ ExecEnds(execMode, core, input)
    /\ LET x == ExecutionResult(execMode, core, input)
       IN  \E e \in 0..MaxElapsedMs :
             IF ~x.ok
             THEN /\ sChan' = Append(sChan, Sp1ErrorMessage(e, x.err))
                  /\ sWorker' = "finished"
             ELSE IF Sp1NumCommits # <<>>
             THEN IF CanReadU32s(x.stream, Sp1NumCommits[1])
                  THEN /\ sChan' = Append(sChan,
                                      OkResult(Sp1OkResult(e, x.stream, Sp1NumCommits[1])))
                       /\ sWorker' = "finished"
                  ELSE /\ sWorker' = "panicked"
                       /\ UNCHANGED sChan
             ELSE /\ sChan' = Append(sChan, OkResult(Sp1OkResult(e, x.stream, Len(x.stream) \div 4)))
                  /\ sWorker' = "finished"
    /\ UNCHANGED << sPc, sOutcome, sExit, configVars, harnessVars, nativeVars >>

\* rx.recv_timeout / rx.recv hands over a message, or finds the sender gone
Sp1Recv ==
    /\ sPc = "recv"
    /\ \/ sChan # <<>>
       \/ sChan = <<>> /\ sWorker = "panicked"
    /\ IF sChan # <<>>
       THEN /\ sOutcome' = << Head(sChan) >>
            /\ sChan' = Tail(sChan)
       ELSE /\ sOutcome' = << ErrResult("SP1 runner thread disconnected") >>
            /\ UNCHANGED sChan
    /\ sPc' = "join"
    /\ UNCHANGED << sWorker, sExit, configVars, harnessVars, nativeVars >>

\* rx.recv_timeout gives RecvTimeoutError::Timeout: execute is still running
Sp1Deadline ==
    /\ sPc = "recv"
    /\ HasTimeout
    /\ sChan = <<>>
    /\ sWorker = "executing"
    /\ GuestCost(core, input) # "fast"
    /\ sOutcome' = << OkResult(Sp1TimeoutResult(timeoutArg)) >>
    /\ sPc' = "join"
    /\ UNCHANGED << sWorker, sChan, sExit, configVars, harnessVars, nativeVars >>

\* whether handle.join() comes back: the worker thread has ended
Sp1Joinable == sWorker \in { "finished", "panicked" }

\* handle.join(), then the result goes back to main, which prints it or fails
Sp1Join ==
    /\ sPc = "join"
    /\ Sp1Joinable
    /\ sPc' = "exited"
    /\ sExit' = << ExitOf(sOutcome[1]) >>
    /\ UNCHANGED << sWorker, sChan, sOutcome, configVars, harnessVars, nativeVars >>

(***************************************************************************)
(* The harness, single-shot workflow (src/harness/src/main.rs).            *)
(***************************************************************************)
HFail(msg) ==
    /\ hPc' = "failed"
    /\ hError' = << msg >>

\* a step 1 that runs cargo prove build whatever --skip-build says
HBuildDespiteSkip ==
    /\ hPc = "start"
    /\ builds' = builds + 1
    /\ \E built \in (IF core \in RegisteredCores THEN BOOLEAN ELSE { FALSE }) :
         IF built THEN hPc' = "native" /\ UNCHANGED hError
         ELSE HFail("cargo prove build failed")
    /\ UNCHANGED << nativeResult, sp1Result, diff, jsonLogs, reproDirs, csvFile,
                    configVars, nativeVars, sp1Vars >>

\* Step 1: cargo prove build in the guest's directory, unless --skip-build
HBuild ==
    /\ hPc = "start"
    /\ IF skip_build
       THEN /\ hPc' = "native"
            /\ UNCHANGED << builds, hError >>
       ELSE /\ builds' = builds + 1
            /\ \E built \in (IF core \in RegisteredCores THEN BOOLEAN ELSE { FALSE }) :
                 IF built THEN hPc' = "native" /\ UNCHANGED hError
                 ELSE HFail("cargo prove build failed")
    /\ UNCHANGED << nativeResult, sp1Result, diff, jsonLogs, reproDirs, csvFile,
                    configVars, nativeVars, sp1Vars >>

\* Step 2: run_native_runner starts the native-runner process
HStartNative ==
    /\ hPc = "native"
    /\ hPc' = "wait_native"
    /\ nPc' = "main"
    /\ nWorker' = "unspawned" /\ nChan' = <<>> /\ nOutcome' = <<>> /\ nExit' = <<>>
    /\ nSteps' = <<>>
    /\ UNCHANGED << builds, hError, nativeResult, sp1Result, diff, jsonLogs, reproDirs,
                    csvFile, configVars, sp1Vars >>

\* run_native_runner: the process has ended; its exit code is checked, its stdout parsed
HNativeDone ==
    /\ hPc = "wait_native"
    /\ nPc = "exited"
    /\ IF nExit[1].code # 0
       THEN /\ HFail("native-runner failed")
            /\ UNCHANGED nativeResult
       ELSE /\ nativeResult' = << RunResultFromJson(nExit[1].stdout[1]) >>
            /\ hPc' = "zkvm"
            /\ UNCHANGED hError
    /\ UNCHANGED << builds, sp1Result, diff, jsonLogs, reproDirs, csvFile,
                    configVars, nativeVars, sp1Vars >>

\* a harness that starts the zkVM runner as soon as the native runner is started
HStartSp1Early ==
    /\ hPc = "wait_native"
    /\ hPc' = "wait_sp1"
    /\ sPc' = "main"
    /\ sWorker' = "unspawned" /\ sChan' = <<>> /\ sOutcome' = <<>> /\ sExit' = <<>>
    /\ UNCHANGED << builds, hError, nativeResult, sp1Result, diff, jsonLogs, reproDirs,
                    csvFile, configVars, nativeVars >>

\* Step 3: run_sp1_runner starts the sp1-runner process
HStartSp1 ==
    /\ hPc = "zkvm"
    /\ hPc' = "wait_sp1"
    /\ sPc' = "main"
    /\ sWorker' = "unspawned" /\ sChan' = <<>> /\ sOutcome' = <<>> /\ sExit' = <<>>
    /\ UNCHANGED << builds, hError, nativeResult, sp1Result, diff, jsonLogs, reproDirs,
                    csvFile, configVars, nativeVars >>

\* a harness that treats a Panic of the guest as the end of the run
HSp1DoneStopsOnPanic ==
    /\ hPc = "wait_sp1"
    /\ sPc = "exited"
    /\ IF sExit[1].code # 0
       THEN /\ HFail("sp1-runner failed")
            /\ UNCHANGED sp1Result
       ELSE /\ sp1Result' = << RunResultFromJson(sExit[1].stdout[1]) >>
            /\ hPc' = IF sp1Result'[1].status = "Panic" THEN "done" ELSE "compare"
            /\ UNCHANGED hError
    /\ UNCHANGED << builds, nativeResult, diff, jsonLogs, reproDirs, csvFile,
                    configVars, nativeVars, sp1Vars >>

\* run_sp1_runner: the process has ended; its exit code is checked, its stdout parsed
HSp1Done ==
    /\ hPc = "wait_sp1"
    /\ sPc = "exited"
    /\ IF sExit[1].code # 0
       THEN /\ HFail("sp1-runner failed")
            /\ UNCHANGED sp1Result
       ELSE /\ sp1Result' = << RunResultFromJson(sExit[1].stdout[1]) >>
            /\ hPc' = "compare"
            /\ UNCHANGED hError
    /\ UNCHANGED << builds, nativeResult, diff, jsonLogs, reproDirs, csvFile,
                    configVars, nativeVars, sp1Vars >>

\* Step 4: compare
HCompare ==
    /\ hPc = "compare"
    /\ diff' = << compare(nativeResult[1], sp1Result[1]) >>
    /\ oracleCalls' = oracleCalls + 1
    /\ IF entry = "fuzz"
       THEN /\ passed' = IF diff'[1].equal THEN passed + 1 ELSE passed
            /\ divergences' = IF diff'[1].equal THEN divergences ELSE divergences + 1
       ELSE UNCHANGED << passed, divergences >>
    /\ hPc' = "log"
    /\ UNCHANGED << builds, hError, nativeResult, sp1Result, jsonLogs, reproDirs, csvFile,
                    entry, core, input, skip_build, timeoutArg, numCommitsArg, execMode, clock,
                    mutatorVars, cores_to_fuzz, mutIdx, fuzzResults, totals, hRunId,
                    nativeVars, sp1Vars >>

\* the wall clock passes a second
Tick ==
    /\ clock < MaxClock
    /\ clock' = clock + 1
    /\ UNCHANGED << entry, core, input, skip_build, timeoutArg, numCommitsArg, execMode,
                    mutatorVars, fuzzVars, auditVars, harnessVars, nativeVars, sp1Vars >>

\* run_id: the timestamp to the second, then the core's name
RunId == [timestamp |-> clock, core |-> core]

\* struct RunLog
RunLog(run_id) ==
    [run_id |-> run_id, core |-> core, input |-> input,
     native_result |-> nativeResult[1], sp1_result |-> sp1Result[1], diff |-> diff[1]]

\* input_path of log_results and log_mutation_result: the <input> argument of
\* harness run, or the temporary file input_<n>.json of the mutation
InputPath ==
    IF entry = "fuzz" THEN [under |-> "artifacts/mutations", run_id |-> <<>>, n |-> mutIdx]
    ELSE [under |-> "inputs", run_id |-> <<>>, n |-> 0]

\* repro_dir.join("input.json")
ReproInputCopy(run_id) == [under |-> "artifacts", run_id |-> << run_id >>, n |-> 0]

\* generate_repro_script: make run CORE={core} INPUT={input}
generate_repro_script(core_path, input_path) == [core |-> core_path, input |-> input_path]

\* the repro folder artifacts/<run_id>/ with its three files
ReproDir(run_id) ==
    [run_id |-> run_id, repro_sh |-> generate_repro_script(core, InputPath),
     input_json |-> input, run_log_json |-> RunLog(run_id)]

\* create_dir_all and the three writes: files of an older folder of that name are replaced
WithReproDir(dirs, run_id) ==
    { r \in dirs : r.run_id # run_id } \cup { ReproDir(run_id) }

CsvHeader == [kind |-> "header"]

\* a data row that names a repro folder whatever the verdict
CsvRowAlwaysRepro(run_id, native, sp1, d) ==
    [kind |-> "row", run_id |-> run_id, core |-> core, input |-> input,
     native_status |-> native.status, sp1_status |-> sp1.status,
     equal |-> d.equal, reason |-> d.reason,
     elapsed_native_ms |-> native.elapsed_ms, elapsed_sp1_ms |-> sp1.elapsed_ms,
     timing_delta_ms |-> d.timing_delta_ms,
     repro_path |-> << run_id >>,
     generator |-> "hand_written", base_seed |-> "", mutation_ops |-> <<>>,
     zkvm_target |-> "sp1"]

\* the data row append_to_csv_summary writes
CsvRow(run_id, native, sp1, d) ==
    [kind |-> "row", run_id |-> run_id, core |-> core, input |-> input,
     native_status |-> native.status, sp1_status |-> sp1.status,
     equal |-> d.equal, reason |-> d.reason,
     elapsed_native_ms |-> native.elapsed_ms, elapsed_sp1_ms |-> sp1.elapsed_ms,
     timing_delta_ms |-> d.timing_delta_ms,
     repro_path |-> IF ~d.equal THEN << run_id >> ELSE <<>>,
     generator |-> "hand_written", base_seed |-> "", mutation_ops |-> <<>>,
     zkvm_target |-> "sp1"]

\* an append that writes the header in front of every record
CsvAppendWithHeader(file, row) == file \o << CsvHeader, row >>

\* the file after the header (if it did not exist) and one record were written
CsvAppend(file, row) == (IF file = <<>> THEN << CsvHeader >> ELSE file) \o << row >>

\* Step 5, log_results up to fs::write of artifacts/<run_id>.json: the file is
\* created or truncated, its content not yet written
HLogCreate ==
    /\ hPc = "log"
    /\ entry = "run"
    /\ hRunId' = << RunId >>
    /\ jsonLogs' = { l \in jsonLogs : l.run_id # RunId } \cup
                   { [run_id |-> RunId, content |-> <<>>] }
    /\ hPc' = "log_write"
    /\ UNCHANGED << builds, hError, nativeResult, sp1Result, diff, reproDirs, csvFile,
                    entry, core, input, skip_build, timeoutArg, numCommitsArg, execMode, clock,
                    mutatorVars, fuzzVars, oracleCalls, nativeVars, sp1Vars >>

\* log_results, the end of fs::write: the content is in the file
HLogFinish ==
    /\ hPc = "log_write"
    /\ jsonLogs' = { l \in jsonLogs : l.run_id # hRunId[1] } \cup
                   { [run_id |-> hRunId[1], content |-> << RunLog(hRunId[1]) >>] }
    /\ hPc' = IF ~diff[1].equal THEN "repro" ELSE "csv"
    /\ UNCHANGED << builds, hError, nativeResult, sp1Result, diff, reproDirs, csvFile,
                    entry, core, input, skip_build, timeoutArg, numCommitsArg, execMode, clock,
                    mutatorVars, fuzzVars, auditVars, nativeVars, sp1Vars >>

\* log_results on a divergence: the repro folder is written
HRepro ==
    /\ hPc = "repro"
    /\ reproDirs' = WithReproDir(reproDirs, hRunId[1])
    /\ hPc' = "csv"
    /\ UNCHANGED << builds, hError, nativeResult, sp1Result, diff, jsonLogs, csvFile,
                    entry, core, input, skip_build, timeoutArg, numCommitsArg, execMode, clock,
                    mutatorVars, fuzzVars, auditVars, nativeVars, sp1Vars >>

\* log_results, its last call: append_to_csv_summary appends the row
HLogCsv ==
    /\ hPc = "csv"
    /\ csvFile' = CsvAppend(csvFile, CsvRow(hRunId[1], nativeResult[1], sp1Result[1], diff[1]))
    /\ hRunId' = <<>>
    /\ hPc' = "done"
    /\ UNCHANGED << builds, hError, nativeResult, sp1Result, diff, jsonLogs, reproDirs,
                    entry, core, input, skip_build, timeoutArg, numCommitsArg, execMode, clock,
                    mutatorVars, fuzzVars, oracleCalls, nativeVars, sp1Vars >>

\* the harness process is stopped while fs::write writes the JSON log
HCrash ==
    /\ hPc = "log_write"
    /\ hPc' = "crashed"
    /\ hRunId' = <<>>
    /\ UNCHANGED << builds, hError, nativeResult, sp1Result, diff, jsonLogs, reproDirs, csvFile,
                    entry, core, input, skip_build, timeoutArg, numCommitsArg, execMode, clock,
                    mutatorVars, fuzzVars, oracleCalls, nativeVars, sp1Vars >>

(***************************************************************************)
(* harness fuzz (src/harness/src/main.rs, run_fuzzing and                  *)
(* fuzz_single_core).                                                      *)
(***************************************************************************)
AvailableCores == << "fib", "panic_test", "timeout_test", "io_echo", "arithmetic", "simple_struct" >>

IsAvailable(c) == \E i \in 1..Len(AvailableCores) : AvailableCores[i] = c

\* get_base_input_for_core
BaseInputPath(c) ==
    CASE c = "fib" -> "inputs/fib_24.json"
      [] c = "panic_test" -> "inputs/panic_no.json"
      [] c = "timeout_test" -> "inputs/timeout_finite.json"
      [] c = "io_echo" -> "inputs/io_echo_1kb.json"
      [] c = "arithmetic" -> "inputs/arithmetic_add_normal.json"
      [] c = "simple_struct" -> "inputs/simple_struct_normal.json"

\* the JSON value read from the base input file
BaseInputJson(c) == [schema |-> "base", path |-> BaseInputPath(c)]

\* the local `mutations` of fuzz_single_core
Mutations(c) == generate_mutations(c, BaseInputJson(c), BaseInputPath(c))

\* the temporary input file input_<n>.json as the runners decode it: the io_echo
\* data with all its bytes; PanicInput has no field panic_message, its panic_msg is None
InputFile(json) ==
    CASE json.schema = "io_echo" -> [schema |-> "io_echo", data |-> ByteRamp(json.data.ramp)]
      [] json.schema = "panic_test" ->
           [schema |-> "panic_test", should_panic |-> json.should_panic, panic_msg |-> <<>>]
      [] OTHER -> json

\* run_fuzzing: the cores argument is validated
FValidate ==
    /\ hPc = "fuzz_start"
    /\ IF \E i \in 1..Len(cores_to_fuzz) : ~IsAvailable(cores_to_fuzz[i])
       THEN LET bad == CHOOSE i \in 1..Len(cores_to_fuzz) :
                         /\ ~IsAvailable(cores_to_fuzz[i])
                         /\ \A j \in 1..(i - 1) : IsAvailable(cores_to_fuzz[j])
            IN  HFail("Unknown core: " \o cores_to_fuzz[bad])
       ELSE hPc' = "fuzz_core" /\ UNCHANGED hError
    /\ UNCHANGED << builds, nativeResult, sp1Result, diff, jsonLogs, reproDirs, csvFile,
                    configVars, nativeVars, sp1Vars >>

\* struct FuzzResult, with the core whose call returned it
FuzzResult(core_name, total, p, d) ==
    [core_name |-> core_name, total |-> total, passed |-> p, divergences |-> d]

\* run_fuzzing adds a core's result to its totals without the core's passes
AddToTotalsDroppingPassed(t, total, p, d) ==
    [total_mutations |-> t.total_mutations + total,
     total_passed |-> t.total_passed,
     total_divergences |-> t.total_divergences + d]

\* run_fuzzing adds a core's result to its totals
AddToTotals(t, total, p, d) ==
    [total_mutations |-> t.total_mutations + total,
     total_passed |-> t.total_passed + p,
     total_divergences |-> t.total_divergences + d]

\* the totals of run_fuzzing before its loop
NoTotals == [total_mutations |-> 0, total_passed |-> 0, total_divergences |-> 0]

\* the loop over the mutations goes to its next round, or the core is done and
\* run_fuzzing goes to its next core
FuzzAdvance ==
    IF mutIdx < Len(Mutations(core).list)
    THEN /\ mutIdx' = mutIdx + 1
         /\ hPc' = "fuzz_iter"
         /\ UNCHANGED << cores_to_fuzz, tallyVars >>
    ELSE /\ mutIdx' = 0
         /\ cores_to_fuzz' = Tail(cores_to_fuzz)
         /\ fuzzResults' = Append(fuzzResults,
                                   FuzzResult(core, Len(Mutations(core).list),
                                              passed, divergences))
         /\ totals' = AddToTotals(totals, Len(Mutations(core).list), passed, divergences)
         /\ hPc' = IF Len(cores_to_fuzz) > 1 THEN "fuzz_core" ELSE "done"
         /\ UNCHANGED << passed, divergences >>

\* fuzz_single_core up to its loop: the base input is read, the mutations are
\* generated, the guest is built once unless --skip-build
FCore ==
    /\ hPc = "fuzz_core"
    /\ core' = cores_to_fuzz[1]
    /\ \E loaded \in BOOLEAN, built \in BOOLEAN :
         IF ~loaded
         THEN HFail("base input not readable")
              /\ UNCHANGED << builds, mutIdx, passed, divergences >>
         ELSE IF ~Mutations(core').ok
         THEN HFail(Mutations(core').err)
              /\ UNCHANGED << builds, mutIdx, passed, divergences >>
         ELSE /\ passed' = 0 /\ divergences' = 0
              /\ builds' = IF skip_build THEN builds ELSE builds + 1
              /\ IF ~skip_build /\ ~built
                 THEN HFail("cargo prove build failed") /\ UNCHANGED mutIdx
                 ELSE /\ mutIdx' = 1
                      /\ hPc' = "fuzz_iter"
                      /\ UNCHANGED hError
    /\ UNCHANGED << nativeResult, sp1Result, diff, jsonLogs, reproDirs, csvFile,
                    entry, input, skip_build, timeoutArg, numCommitsArg, execMode, clock,
                    mutatorVars, cores_to_fuzz, fuzzResults, totals, auditVars,
                    nativeVars, sp1Vars >>

\* one round of the loop begins: the mutated input is written to its file; the
\* results and the runner processes of the round before are gone (the rounds
\* are capped where the runner processes are followed step by step)
FIter ==
    /\ hPc = "fuzz_iter"
    /\ (mutIdx <= MaxFuzzMutations \/ execMode = "supplied")
    /\ input' = InputFile(Mutations(core).list[mutIdx].input_json)
    /\ nativeResult' = <<>> /\ sp1Result' = <<>> /\ diff' = <<>>
    /\ nPc' = "idle" /\ nWorker' = "unspawned" /\ nChan' = <<>> /\ nOutcome' = <<>>
    /\ nExit' = <<>> /\ nSteps' = <<>>
    /\ sPc' = "idle" /\ sWorker' = "unspawned" /\ sChan' = <<>> /\ sOutcome' = <<>>
    /\ sExit' = <<>>
    /\ hPc' = "native"
    /\ UNCHANGED << builds, hError, jsonLogs, reproDirs, csvFile,
                    entry, core, skip_build, timeoutArg, numCommitsArg, execMode, clock,
                    mutatorVars, fuzzVars, auditVars >>

\* the data row log_mutation_result writes
MutationCsvRow(run_id, native, sp1, d, mutation) ==
    [kind |-> "row", run_id |-> run_id, core |-> core, input |-> input,
     native_status |-> native.status, sp1_status |-> sp1.status,
     equal |-> d.equal, reason |-> d.reason,
     elapsed_native_ms |-> native.elapsed_ms, elapsed_sp1_ms |-> sp1.elapsed_ms,
     timing_delta_ms |-> d.timing_delta_ms,
     repro_path |-> IF ~d.equal THEN << run_id >> ELSE <<>>,
     generator |-> "mutated", base_seed |-> mutation.base_input_path,
     mutation_ops |-> << mutation.mutation_op >>,
     zkvm_target |-> "sp1"]

\* log_mutation_result up to writer.flush: the CSV row is appended; when the
\* results agree the function is over and the loop goes on
FLog ==
    /\ hPc = "log"
    /\ entry = "fuzz"
    /\ csvFile' = CsvAppend(csvFile,
                            MutationCsvRow(RunId, nativeResult[1], sp1Result[1], diff[1],
                                           Mutations(core).list[mutIdx]))
    /\ IF diff[1].equal
       THEN FuzzAdvance /\ UNCHANGED hRunId
       ELSE /\ hPc' = "fuzz_repro"
            /\ hRunId' = << RunId >>
            /\ UNCHANGED fuzzVars
    /\ UNCHANGED << builds, hError, nativeResult, sp1Result, diff, jsonLogs, reproDirs,
                    entry, core, input, skip_build, timeoutArg, numCommitsArg, execMode, clock,
                    mutatorVars, oracleCalls, nativeVars, sp1Vars >>

\* log_mutation_result on a divergence: the repro folder is written; then the
\* loop goes on
FRepro ==
    /\ hPc = "fuzz_repro"
    /\ reproDirs' = WithReproDir(reproDirs, hRunId[1])
    /\ hRunId' = <<>>
    /\ FuzzAdvance
    /\ UNCHANGED << builds, hError, nativeResult, sp1Result, diff, jsonLogs, csvFile,
                    entry, core, input, skip_build, timeoutArg, numCommitsArg, execMode, clock,
                    mutatorVars, oracleCalls, nativeVars, sp1Vars >>

(***************************************************************************)
(* Specifications.                                                         *)
(***************************************************************************)
NoRunner ==
    /\ nWorker = "unspawned" /\ nChan = <<>> /\ nOutcome = <<>> /\ nExit = <<>>
    /\ nSteps = <<>>
    /\ sWorker = "unspawned" /\ sChan = <<>> /\ sOutcome = <<>> /\ sExit = <<>>

NoHarnessState ==
    /\ builds = 0 /\ hError = <<>> /\ nativeResult = <<>> /\ sp1Result = <<>>
    /\ diff = <<>> /\ jsonLogs = {} /\ reproDirs = {} /\ csvFile = <<>>
    /\ clock = 0
    /\ genCalls = <<>> /\ fibLoop = <<>>
    /\ mutIdx = 0 /\ hRunId = <<>> /\ oracleCalls = 0
    /\ passed = 0 /\ divergences = 0 /\ fuzzResults = <<>> /\ totals = NoTotals

\* the --cores argument of harness fuzz, split: one core, known or not, two
\* cores the second of which is unknown, or "all"
CoresArgs ==
    { << c >> : c \in RegisteredCores \cup { "unknown_core" } }
        \cup { << "fib", "unknown_core" >>, AvailableCores }

\* one harness run, one fuzz batch, or one runner started from the command line
Init ==
    /\ entry \in { "run", "fuzz", "native_cli", "sp1_cli" }
    /\ cores_to_fuzz \in (IF entry = "fuzz" THEN CoresArgs ELSE { <<>> })
    /\ core \in (IF entry = "fuzz" THEN { cores_to_fuzz[1] }
                 ELSE IF entry = "sp1_cli" THEN RegisteredCores
                 ELSE RegisteredCores \cup { "unknown_core" })
    /\ input \in (IF entry = "fuzz" THEN { MissingInput }
                  ELSE InputsOf(core) \cup { GarbageInput, MissingInput })
    /\ skip_build \in (IF entry \in { "run", "fuzz" } THEN BOOLEAN ELSE { TRUE })
    /\ timeoutArg \in (IF entry \in { "run", "fuzz" } THEN { DefaultTimeoutSecs }
                       ELSE { 0, DefaultTimeoutSecs })
    /\ numCommitsArg \in (IF entry = "sp1_cli"
                          THEN { <<>> } \cup { << n >> : n \in 0..MaxNumCommitsArg }
                          ELSE { <<>> })
    /\ execMode \in (IF entry = "native_cli" THEN { "faithful" } ELSE ExecModes)
    /\ hPc = (CASE entry = "run" -> "start" [] entry = "fuzz" -> "fuzz_start" [] OTHER -> "cli")
    /\ nPc = (IF entry = "native_cli" THEN "main" ELSE "idle")
    /\ sPc = (IF entry = "sp1_cli" THEN "main" ELSE "idle")
    /\ NoRunner
    /\ NoHarnessState

Next ==
    \/ HBuild \/ HStartNative \/ HNativeDone \/ HStartSp1 \/ HSp1Done \/ HCompare
    \/ HLogCreate \/ HLogFinish \/ HRepro \/ HLogCsv
    \/ FValidate \/ FCore \/ FIter \/ FLog \/ FRepro
    \/ NativeMain \/ NativeWorkerDispatch \/ NativeWorkerFinish
    \/ NativeRecv \/ NativeDeadline \/ NativeJoin
    \/ Sp1Main \/ Sp1WorkerExecute \/ Sp1WorkerFinish
    \/ Sp1Recv \/ Sp1Deadline \/ Sp1Join

Spec == Init /\ [][Next]_vars

(***************************************************************************)
(* The harness under fair scheduling: a step that can be taken is taken.   *)
(***************************************************************************)
\* the steps of the three processes
HarnessSteps ==
    \/ HBuild \/ HStartNative \/ HNativeDone \/ HStartSp1 \/ HSp1Done \/ HCompare
    \/ HLogCreate \/ HLogFinish \/ HRepro \/ HLogCsv
    \/ FValidate \/ FCore \/ FIter \/ FLog \/ FRepro

NativeSteps ==
    \/ NativeMain \/ NativeWorkerDispatch \/ NativeWorkerFinish
    \/ NativeRecv \/ NativeDeadline \/ NativeJoin

Sp1Steps ==
    \/ Sp1Main \/ Sp1WorkerExecute \/ Sp1WorkerFinish
    \/ Sp1Recv \/ Sp1Deadline \/ Sp1Join

\* the harness command with --skip-build; of the single-shot arithmetic inputs
\* those that add or subtract
FairInit ==
    /\ Init
    /\ InHarness
    /\ skip_build
    /\ input \in ArithmeticInputs => input.operation \in { "add", "sub" }

\* each process goes on while it has a step to take
FairSpec ==
    /\ FairInit /\ [][Next]_vars
    /\ WF_vars(HarnessSteps) /\ WF_vars(NativeSteps) /\ WF_vars(Sp1Steps)

(***************************************************************************)
(* The oracle on its own: compare applied to any two RunResults.           *)
(***************************************************************************)
OracleValues == { ToValueU32(LE4(0)), ToValueU32(LE4(1)) }

OracleCommits == UNION { [1..n -> OracleValues] : n \in 0..MaxCommitsLen }

\* a pair handed to compare: any status, elapsed time and commits, and a meta
\* with or without a panic message
OracleNativeResults ==
    { RunResult(st, e, c, NativeMeta(m, <<>>)) :
        st \in Statuses, e \in 0..MaxElapsedMs, c \in OracleCommits, m \in { <<>>, << "boom" >> } }

OracleZkvmResults ==
    { RunResult(st, e, c, Sp1Meta(m, <<>>, <<>>)) :
        st \in Statuses, e \in 0..MaxElapsedMs, c \in OracleCommits, m \in { <<>>, << "boom" >> } }

OracleInit ==
    /\ entry = "oracle"
    /\ core = "fib"
    /\ input = GarbageInput
    /\ skip_build = TRUE
    /\ timeoutArg = DefaultTimeoutSecs
    /\ numCommitsArg = <<>>
    /\ execMode = "faithful"
    /\ hPc = "compare"
    /\ nPc = "idle"
    /\ sPc = "idle"
    /\ NoRunner
    /\ builds = 0 /\ hError = <<>> /\ diff = <<>>
    /\ jsonLogs = {} /\ reproDirs = {} /\ csvFile = <<>> /\ clock = 0
    /\ genCalls = <<>> /\ fibLoop = <<>> /\ cores_to_fuzz = <<>>
    /\ mutIdx = 0 /\ hRunId = <<>> /\ oracleCalls = 0
    /\ passed = 0 /\ divergences = 0 /\ fuzzResults = <<>> /\ totals = NoTotals
    /\ nativeResult \in { << r >> : r \in OracleNativeResults }
    /\ sp1Result \in { << r >> : r \in OracleZkvmResults }

OracleNext == HCompare

OracleSpec == OracleInit /\ [][OracleNext]_vars

(***************************************************************************)
(* Logging on its own: comparisons of either workflow, of several harness  *)
(* runs one after the other, are compared and logged while the clock runs; *)
(* a harness run can be stopped while it writes its JSON log.              *)
(***************************************************************************)
LogCores == { "fib", "panic_test" }

LogNativeResults ==
    { RunResult("Ok", 0, << ToValueU32(LE4(1)) >>, NativeMeta(<<>>, <<>>)),
      NativePanicResult("boom") }

LogZkvmResults ==
    { RunResult("Ok", 1, << ToValueU32(LE4(1)) >>, Sp1Meta(<<>>, <<>>, <<>>)),
      Sp1PanicResult(1, "boom") }

LogInit ==
    /\ entry = "run"
    /\ core = "fib"
    /\ input = MissingInput
    /\ skip_build = TRUE
    /\ timeoutArg = DefaultTimeoutSecs
    /\ numCommitsArg = <<>>
    /\ execMode = "faithful"
    /\ hPc = "idle"
    /\ nPc = "idle"
    /\ sPc = "idle"
    /\ NoRunner
    /\ NoHarnessState
    /\ cores_to_fuzz = <<>>

\* a harness run or a round of a fuzz batch has both its results in hand
LogSupply ==
    /\ hPc \notin { "compare", "log", "log_write", "repro", "csv", "fuzz_repro" }
    /\ oracleCalls < MaxComparisons
    /\ entry' \in { "run", "fuzz" }
    /\ core' \in LogCores
    /\ IF entry' = "fuzz"
       THEN /\ cores_to_fuzz' = << core' >>
            /\ mutIdx' = 1
            /\ input' = InputFile(Mutations(core').list[1].input_json)
       ELSE /\ cores_to_fuzz' = <<>>
            /\ mutIdx' = 0
            /\ input' = CHOOSE i \in InputsOf(core') : TRUE
    /\ nativeResult' \in { << r >> : r \in LogNativeResults }
    /\ sp1Result' \in { << r >> : r \in LogZkvmResults }
    /\ diff' = <<>>
    /\ hPc' = "compare"
    /\ UNCHANGED << builds, hError, jsonLogs, reproDirs, csvFile,
                    skip_build, timeoutArg, numCommitsArg, execMode, clock,
                    mutatorVars, tallyVars, auditVars, nativeVars, sp1Vars >>

LogNext ==
    \/ LogSupply \/ Tick \/ HCompare \/ HLogCreate \/ HLogFinish \/ HRepro \/ HLogCsv \/ HCrash
    \/ FLog \/ FRepro

LogSpec == LogInit /\ [][LogNext]_vars

(***************************************************************************)
(* Whole fuzz batches and single runs of the harness, the two runner        *)
(* processes taken as one step each: a process ends with a RunResult on its *)
(* stdout or with exit code 1.  The first MaxFuzzMutations rounds of a core *)
(* draw what the processes end with, the later rounds end with agreeing     *)
(* results.                                                                *)
(***************************************************************************)
BatchCores ==
    { << "panic_test" >>, << "panic_test", "timeout_test" >>, << "fib", "panic_test" >> }

BatchNativeOk == RunResult("Ok", 0, << ToValueU32(LE4(1)) >>, NativeMeta(<<>>, <<>>))

BatchZkvmOk == RunResult("Ok", 1, << ToValueU32(LE4(1)) >>, Sp1Meta(<<>>, <<>>, <<>>))

\* a runner process that ended with a runner-level error
RunnerFailed == [code |-> 1, stdout |-> <<>>]

\* whether what the processes of this round end with is drawn
BatchDraws == entry = "run" \/ mutIdx <= MaxFuzzMutations

BatchInit ==
    /\ entry \in { "run", "fuzz" }
    /\ cores_to_fuzz \in (IF entry = "fuzz" THEN BatchCores ELSE { <<>> })
    /\ core = (IF entry = "fuzz" THEN cores_to_fuzz[1] ELSE "fib")
    /\ input = (IF entry = "fuzz" THEN MissingInput ELSE CHOOSE i \in InputsOf("fib") : TRUE)
    /\ skip_build \in BOOLEAN
    /\ timeoutArg = DefaultTimeoutSecs
    /\ numCommitsArg = <<>>
    /\ execMode = "supplied"
    /\ hPc = (IF entry = "run" THEN "start" ELSE "fuzz_start")
    /\ nPc = "idle"
    /\ sPc = "idle"
    /\ NoRunner
    /\ NoHarnessState

\* the native-runner process from its start to its end
BatchNativeRuns ==
    /\ nPc = "main"
    /\ nPc' = "exited"
    /\ nExit' \in { << ExitOf(OkResult(BatchNativeOk)) >> }
                     \cup (IF BatchDraws THEN { << RunnerFailed >> } ELSE {})
    /\ UNCHANGED << nWorker, nChan, nOutcome, nSteps, configVars, harnessVars, sp1Vars >>

\* the sp1-runner process from its start to its end
BatchSp1Runs ==
    /\ sPc = "main"
    /\ sPc' = "exited"
    /\ sExit' \in { << ExitOf(OkResult(BatchZkvmOk)) >> }
                     \cup (IF BatchDraws
                           THEN { << ExitOf(OkResult(Sp1PanicResult(1, "boom"))) >>,
                                  << RunnerFailed >> }
                           ELSE {})
    /\ UNCHANGED << sWorker, sChan, sOutcome, configVars, harnessVars, nativeVars >>

BatchNext ==
    \/ HBuild \/ HStartNative \/ BatchNativeRuns \/ HNativeDone
    \/ HStartSp1 \/ BatchSp1Runs \/ HSp1Done \/ HCompare
    \/ HLogCreate \/ HLogFinish \/ HRepro \/ HLogCsv
    \/ FValidate \/ FCore \/ FIter \/ FLog \/ FRepro

BatchSpec == BatchInit /\ [][BatchNext]_vars

(***************************************************************************)
(* The worker of the native runner on the arithmetic core alone: operands  *)
(* from the low and the high end of the u32 range, every operation and an  *)
(* unknown one.                                                            *)
(***************************************************************************)
ArithmeticLowOperands == { LE4(0), LE4(1), LE4(2), LE4(3), LE4(255), LE4(256), LE4(32767) }

\* a row of the table below: a, b, operation, and the result and flag of the
\* exact operation reduced mod 2^32
ArithmeticTableRow(a, b, op, result, overflowed) ==
    [a |-> a, b |-> b, operation |-> op, result |-> result, overflowed |-> overflowed]

\* results at the ends of the u32 range, worked out by hand
\* (MAX = 2^32 - 1 = 65535 * 65537)
ArithmeticTable ==
    LET MAX  == << 255, 255, 255, 255 >>
        MAX1 == << 254, 255, 255, 255 >>
        HALF == << 0, 0, 0, 128 >>
    IN  { ArithmeticTableRow(MAX, LE4(1), "add", LE4(0), TRUE),
          ArithmeticTableRow(LE4(1), MAX, "add", LE4(0), TRUE),
          ArithmeticTableRow(MAX, MAX, "add", MAX1, TRUE),
          ArithmeticTableRow(MAX, LE4(0), "add", MAX, FALSE),
          ArithmeticTableRow(MAX1, LE4(1), "add", MAX, FALSE),
          ArithmeticTableRow(MAX1, LE4(2), "add", LE4(0), TRUE),
          ArithmeticTableRow(HALF, HALF, "add", LE4(0), TRUE),
          ArithmeticTableRow(LE4(65535), LE4(65537), "add", LE4(131072), FALSE),
          ArithmeticTableRow(LE4(0), LE4(1), "sub", MAX, TRUE),
          ArithmeticTableRow(LE4(0), MAX, "sub", LE4(1), TRUE),
          ArithmeticTableRow(LE4(1), MAX, "sub", LE4(2), TRUE),
          ArithmeticTableRow(MAX, MAX, "sub", LE4(0), FALSE),
          ArithmeticTableRow(MAX, LE4(1), "sub", MAX1, FALSE),
          ArithmeticTableRow(MAX1, MAX, "sub", MAX, TRUE),
          ArithmeticTableRow(LE4(65536), LE4(65537), "sub", MAX, TRUE),
          ArithmeticTableRow(LE4(65536), LE4(65536), "mul", LE4(0), TRUE),
          ArithmeticTableRow(LE4(65535), LE4(65537), "mul", MAX, FALSE),
          ArithmeticTableRow(LE4(65536), LE4(65535), "mul", << 0, 0, 255, 255 >>, FALSE),
          ArithmeticTableRow(LE4(65537), LE4(65537), "mul", LE4(131073), TRUE),
          ArithmeticTableRow(MAX, LE4(2), "mul", MAX1, TRUE),
          ArithmeticTableRow(MAX, MAX, "mul", LE4(1), TRUE),
          ArithmeticTableRow(MAX, LE4(1), "mul", MAX, FALSE),
          ArithmeticTableRow(MAX, LE4(0), "mul", LE4(0), FALSE),
          ArithmeticTableRow(HALF, LE4(2), "mul", LE4(0), TRUE),
          ArithmeticTableRow(MAX, LE4(1), "div", MAX, FALSE),
          ArithmeticTableRow(MAX, MAX, "div", LE4(1), FALSE),
          ArithmeticTableRow(MAX, LE4(2), "div", << 255, 255, 255, 127 >>, FALSE),
          ArithmeticTableRow(MAX, LE4(65536), "div", LE4(65535), FALSE),
          ArithmeticTableRow(MAX, LE4(65537), "div", LE4(65535), FALSE),
          ArithmeticTableRow(LE4(1), MAX, "div", LE4(0), FALSE),
          ArithmeticTableRow(MAX1, MAX, "div", LE4(0), FALSE) }

\* the low operands under every operation and an unknown one, the operands
\* of the table, and a division of MAX by zero
ArithmeticWorkerInputs ==
    { [schema |-> "arithmetic", a |-> a, b |-> b, operation |-> op] :
        a \in ArithmeticLowOperands, b \in ArithmeticLowOperands,
        op \in { "add", "sub", "mul", "div", "modulo" } }
      \cup
    { [schema |-> "arithmetic", a |-> r.a, b |-> r.b, operation |-> r.operation] :
        r \in ArithmeticTable }
      \cup
    { [schema |-> "arithmetic", a |-> U32Max, b |-> LE4(0), operation |-> "div"] }

ArithmeticInit ==
    /\ entry = "native_worker"
    /\ core = "arithmetic"
    /\ input \in ArithmeticWorkerInputs
    /\ skip_build = TRUE
    /\ timeoutArg = DefaultTimeoutSecs
    /\ numCommitsArg = <<>>
    /\ execMode = "faithful"
    /\ hPc = "cli"
    /\ nPc = "recv"
    /\ sPc = "idle"
    /\ nWorker = "ready" /\ nChan = <<>> /\ nOutcome = <<>> /\ nExit = <<>>
    /\ nSteps = <<>>
    /\ sWorker = "unspawned" /\ sChan = <<>> /\ sOutcome = <<>> /\ sExit = <<>>
    /\ NoHarnessState
    /\ cores_to_fuzz = <<>>

ArithmeticNext == NativeWorkerDispatch \/ NativeWorkerFinish

ArithmeticSpec == ArithmeticInit /\ [][ArithmeticNext]_vars

(***************************************************************************)
(* fib run on its own, one round of its loop at a time.                    *)
(***************************************************************************)
FibLoopCounts == { 0, 1, 10, MaxFibIterations }

FibInit ==
    /\ entry = "fib_run"
    /\ core = "fib"
    /\ input = GarbageInput
    /\ skip_build = TRUE
    /\ timeoutArg = DefaultTimeoutSecs
    /\ numCommitsArg = <<>>
    /\ execMode = "faithful"
    /\ hPc = "cli"
    /\ nPc = "idle"
    /\ sPc = "idle"
    /\ NoRunner
    /\ builds = 0 /\ hError = <<>> /\ nativeResult = <<>> /\ sp1Result = <<>>
    /\ diff = <<>> /\ jsonLogs = {} /\ reproDirs = {} /\ csvFile = <<>>
    /\ clock = 0 /\ genCalls = <<>> /\ cores_to_fuzz = <<>>
    /\ mutIdx = 0 /\ hRunId = <<>> /\ oracleCalls = 0
    /\ passed = 0 /\ divergences = 0 /\ fuzzResults = <<>> /\ totals = NoTotals
    /\ \E n \in FibLoopCounts :
         fibLoop = << [n |-> n, i |-> 0, a |-> LE4(0), b |-> LE4(1), pc |-> "loop"] >>

\* one round of the loop with c = a + b left as it is
FibIterateNoModulus ==
    /\ fibLoop # <<>>
    /\ fibLoop[1].pc = "loop"
    /\ fibLoop[1].i < fibLoop[1].n
    /\ LET c == AddLE(fibLoop[1].a, fibLoop[1].b, 0)
       IN  fibLoop' = IF c[5] # 0
                      THEN << [fibLoop[1] EXCEPT !.pc = "overflow"] >>
                      ELSE << [fibLoop[1] EXCEPT !.i = @ + 1, !.a = fibLoop[1].b,
                                                 !.b = SubSeq(c, 1, 4)] >>
    /\ UNCHANGED << entry, core, input, skip_build, timeoutArg, numCommitsArg, execMode, clock,
                    genCalls, fuzzVars, auditVars, harnessVars, nativeVars, sp1Vars >>

\* one round of the loop: c = a + b in u32, which overflows (a panic, or a
\* wrapped sum, as the build has it) when the sum does not fit; c %= 7919
FibIterate ==
    /\ fibLoop # <<>>
    /\ fibLoop[1].pc = "loop"
    /\ fibLoop[1].i < fibLoop[1].n
    /\ LET c == AddLE(fibLoop[1].a, fibLoop[1].b, 0)
       IN  fibLoop' = IF c[5] # 0
                      THEN << [fibLoop[1] EXCEPT !.pc = "overflow"] >>
                      ELSE << [fibLoop[1] EXCEPT !.i = @ + 1, !.a = fibLoop[1].b,
                                                 !.b = LE4(LEToNat(SubSeq(c, 1, 4)) % 7919)] >>
    /\ UNCHANGED << entry, core, input, skip_build, timeoutArg, numCommitsArg, execMode, clock,
                    genCalls, fuzzVars, auditVars, harnessVars, nativeVars, sp1Vars >>

\* the range 0..n is used up: FibOutput { n, a, b }
FibReturn ==
    /\ fibLoop # <<>>
    /\ fibLoop[1].pc = "loop"
    /\ fibLoop[1].i = fibLoop[1].n
    /\ fibLoop' = << [fibLoop[1] EXCEPT !.pc = "returned"] >>
    /\ UNCHANGED << entry, core, input, skip_build, timeoutArg, numCommitsArg, execMode, clock,
                    genCalls, fuzzVars, auditVars, harnessVars, nativeVars, sp1Vars >>

FibNext == FibIterate \/ FibReturn

FibSpec == FibInit /\ [][FibNext]_vars

(***************************************************************************)
(* The mutators on their own: generate_mutations called with any core name *)
(* and any base input.                                                     *)
(***************************************************************************)
MutatorBaseInputs == { [schema |-> "fib", n |-> LE4(24)], GarbageInput }

MutatorBasePaths == { "inputs/fib_24.json", "inputs/other.json" }

MutatorInit ==
    /\ entry = "mutators"
    /\ core \in RegisteredCores \cup { "unknown_core" }
    /\ input = GarbageInput
    /\ skip_build = TRUE
    /\ timeoutArg = DefaultTimeoutSecs
    /\ numCommitsArg = <<>>
    /\ execMode = "faithful"
    /\ hPc = "cli"
    /\ nPc = "idle"
    /\ sPc = "idle"
    /\ NoRunner
    /\ NoHarnessState
    /\ cores_to_fuzz = <<>>

\* one call generate_mutations(core, base, path), and calculate_size_stats on the
\* list it returned
MutatorCall ==
    /\ entry = "mutators"
    /\ Len(genCalls) < MaxMutatorCalls
    /\ \E base \in MutatorBaseInputs, path \in MutatorBasePaths :
         LET result == generate_mutations(core, base, path)
         IN  genCalls' = Append(genCalls,
                                [core_name |-> core, base_input_json |-> base,
                                 base_input_path |-> path,
                                 result |-> result,
                                 stats |-> IF result.ok
                                           THEN << calculate_size_stats(result.list) >>
                                           ELSE <<>>])
    /\ UNCHANGED << entry, core, input, skip_build, timeoutArg, numCommitsArg, execMode, clock,
                    fibLoop, fuzzVars, auditVars, harnessVars, nativeVars, sp1Vars >>

MutatorNext == MutatorCall

MutatorSpec == MutatorInit /\ [][MutatorNext]_vars

(***************************************************************************)
(* Properties.                                                             *)
(***************************************************************************)
\* two commit sequences are equal element by element, in order
CommitsEqual(a, b) == Len(a) = Len(b) /\ \A i \in 1..Len(a) : a[i] = b[i]

\* the RunResults carried by a sequence of Result<RunResult>
ResultsIn(outcomes) ==
    { outcomes[i].result[1] : i \in { j \in 1..Len(outcomes) : outcomes[j].ok } }

\* every RunResult the native runner has built, wherever it is by now
NativeProduced ==
    ResultsIn(nChan) \cup ResultsIn(nOutcome)
      \cup { RunResultFromJson(nExit[i].stdout[1]) :
               i \in { j \in 1..Len(nExit) : nExit[j].stdout # <<>> } }
      \cup { nativeResult[i] : i \in 1..Len(nativeResult) }

\* every RunResult the SP1 runner has built, wherever it is by now
\* (under OracleSpec sp1Result is handed to compare as it is)
Sp1Produced ==
    ResultsIn(sChan) \cup ResultsIn(sOutcome)
      \cup { RunResultFromJson(sExit[i].stdout[1]) :
               i \in { j \in 1..Len(sExit) : sExit[j].stdout # <<>> } }
      \cup { sp1Result[i] : i \in 1..Len(sp1Result) }

NativeTimedOut ==
    nOutcome # <<>> /\ nOutcome[1].ok /\ nOutcome[1].result[1].status = "Timeout"

Sp1TimedOut ==
    sOutcome # <<>> /\ sOutcome[1].ok /\ sOutcome[1].result[1].status = "Timeout"

\* C1: compare returns equal = true exactly when the two statuses are the same
\* and (that status is not Ok, or the commit sequences are equal element by
\* element and in order); in every other case equal = false.
C1_CompareVerdict ==
    diff # <<>> =>
      ( diff[1].equal <=>
          /\ nativeResult[1].status = sp1Result[1].status
          /\ \/ nativeResult[1].status # "Ok"
             \/ CommitsEqual(nativeResult[1].commits, sp1Result[1].commits) )

\* two Ok results whose commits agree on the first value and differ on the second
C1_Witness ==
    /\ entry = "oracle"
    /\ diff # <<>>
    /\ ~diff[1].equal
    /\ nativeResult[1].status = "Ok" /\ sp1Result[1].status = "Ok"
    /\ Len(nativeResult[1].commits) = 2 /\ Len(sp1Result[1].commits) = 2
    /\ nativeResult[1].commits[1] = sp1Result[1].commits[1]
    /\ nativeResult[1].commits[2] # sp1Result[1].commits[2]

\* C2: in both runners, once the deadline has expired without a result the call
\* hands back a Timeout RunResult (elapsed_ms = the timeout in ms, no commits)
\* and returns without waiting for the worker: its next step, the return, can
\* be taken whether or not the worker has ended.
C2_TimeoutReturnsWithoutWaiting ==
    /\ NativeTimedOut =>
         /\ nOutcome[1].result[1].elapsed_ms = SecsToMillis(timeoutArg)
         /\ nOutcome[1].result[1].commits = <<>>
         /\ nPc = "join" => ENABLED NativeJoin
    /\ Sp1TimedOut =>
         /\ sOutcome[1].result[1].elapsed_ms = SecsToMillis(timeoutArg)
         /\ sOutcome[1].result[1].commits = <<>>
         /\ sPc = "join" => ENABLED Sp1Join

\* execute came back with a stream that holds fewer values than --num-commits asks for
Sp1ReadFails ==
    /\ sWorker \in { "finished", "panicked" }
    /\ Sp1NumCommits # <<>>
    /\ ExecutionResult(execMode, core, input).ok
    /\ ~CanReadU32s(ExecutionResult(execMode, core, input).stream, Sp1NumCommits[1])

\* C3: when the executor succeeds but a read of one of the expected values
\* fails, run_sp1_with_safeguards returns a RunResult with status Panic, no
\* commits and a decode-error message in meta, not a runner-level error.
C3_DecodeFailureIsPanic ==
    (sPc = "exited" /\ Sp1ReadFails /\ ~Sp1TimedOut) =>
      /\ sOutcome[1].ok
      /\ sOutcome[1].result[1].status = "Panic"
      /\ sOutcome[1].result[1].commits = <<>>
      /\ sOutcome[1].result[1].meta.panic_msg # <<>>

\* one side has no commits and the other has some
OneSideEmpty == (nativeResult[1].commits = <<>>) # (sp1Result[1].commits = <<>>)

\* C4 as stated: for every pair given to compare, whatever the two statuses, if
\* one side has no commits and the other has some, equal = false.
C4_FailClosedAllPairs ==
    (diff # <<>> /\ OneSideEmpty) => ~diff[1].equal

\* C4 as amended: the same for every pair whose statuses differ or are both Ok;
\* when the two statuses are the same non-Ok status the commits are not compared.
C4_FailClosed ==
    ( /\ diff # <<>>
      /\ OneSideEmpty
      /\ \/ nativeResult[1].status # sp1Result[1].status
         \/ nativeResult[1].status = "Ok" ) => ~diff[1].equal

\* both Ok, the native side with no commits, the zkVM side with some: not equal
C4_Witness ==
    /\ entry = "oracle"
    /\ diff # <<>>
    /\ nativeResult[1].status = "Ok" /\ sp1Result[1].status = "Ok"
    /\ nativeResult[1].commits = <<>> /\ sp1Result[1].commits # <<>>
    /\ ~diff[1].equal

\* C5: every RunResult built by the native runner or by the SP1 runner with
\* status Panic or Timeout has no commits.
C5_NonOkHasNoCommits ==
    \A r \in NativeProduced \cup Sp1Produced :
      r.status \in { "Panic", "Timeout" } => r.commits = <<>>

\* the harness holds a native Timeout (deadline expiry) and an SP1 Panic (executor error)
C5_Witness ==
    /\ entry = "run"
    /\ nativeResult # <<>> /\ nativeResult[1].status = "Timeout"
    /\ sp1Result # <<>> /\ sp1Result[1].status = "Panic"

\* the native worker is given a registered core and an input it decodes, and the core panics
NativeCorePanics ==
    /\ core \in RegisteredCores
    /\ DecodeOk(core, input)
    /\ CoreRun(core, input).kind = "panics"

\* C6: a panic of the core in the native worker is caught there: the call
\* returns Ok(RunResult) with status Panic, no commits, meta.runner = "native"
\* and meta.panic_msg the panic message; it is no runner-level error (the
\* process exits with 0) and the worker thread does not die of it.
C6_NativePanicCaught ==
    /\ nWorker # "panicked"
    /\ (NativeCorePanics /\ nPc \in { "join", "exited" }) =>
         /\ nOutcome[1].ok
         /\ nOutcome[1].result[1].status = "Panic"
         /\ nOutcome[1].result[1].commits = <<>>
         /\ nOutcome[1].result[1].meta.runner = "native"
         /\ nOutcome[1].result[1].meta.panic_msg = << CoreRun(core, input).msg >>
    /\ (NativeCorePanics /\ nPc = "exited") =>
         /\ nExit[1].code = 0
         /\ nExit[1].stdout # <<>>

\* arithmetic with div and b = 0 has gone through the native runner
C6_Witness ==
    /\ nPc = "exited"
    /\ core = "arithmetic"
    /\ NativeCorePanics
    /\ nOutcome[1].result[1].meta.panic_msg = << "Division by zero" >>

\* the native runner is given an unknown core name or an input that does not decode
NativeRejects == core \notin RegisteredCores \/ ~DecodeOk(core, input)

\* C7: an input that fails to decode, or an unknown core name, makes the native
\* runner return a runner-level error and no RunResult; the harness then stops
\* with an error: the SP1 runner is not started, compare is not called and no
\* JSON log, CSV row or repro folder is written.
C7_RunnerErrorStopsComparison ==
    NativeRejects =>
      /\ nOutcome # <<>> => ~nOutcome[1].ok
      /\ nExit # <<>> => (nExit[1].code # 0 /\ nExit[1].stdout = <<>>)
      /\ nativeResult = <<>>
      /\ entry = "run" =>
           /\ hPc \in { "start", "native", "wait_native", "failed" }
           /\ sPc = "idle" /\ sWorker = "unspawned"
           /\ diff = <<>>
           /\ jsonLogs = {} /\ csvFile = <<>> /\ reproDirs = {}
      /\ (entry = "run" /\ nPc = "exited" /\ hPc # "wait_native") =>
           (hPc = "failed" /\ hError = << "native-runner failed" >>)

\* the harness has stopped on the native runner's error for an input that does not decode
C7_Witness ==
    /\ entry = "run"
    /\ core \in RegisteredCores
    /\ input = GarbageInput
    /\ nOutcome # <<>>
    /\ hPc = "failed"
    /\ hError = << "native-runner failed" >>

\* execute has come back with an error
Sp1ExecFailed ==
    /\ sWorker = "finished"
    /\ ~ExecutionResult(execMode, core, input).ok

\* C8: an executor error is treated as a guest panic: unless the deadline
\* expired first, run_sp1_with_safeguards returns status Panic with no commits
\* and the error text in meta, and compare of a native Panic with it is equal.
C8_ExecutorErrorIsPanic ==
    /\ (Sp1ExecFailed /\ sOutcome # <<>> /\ ~Sp1TimedOut) =>
         /\ sOutcome[1].ok
         /\ sOutcome[1].result[1].status = "Panic"
         /\ sOutcome[1].result[1].commits = <<>>
         /\ sOutcome[1].result[1].meta.panic_msg
              = << ExecutionResult(execMode, core, input).err >>
    /\ ( /\ Sp1ExecFailed /\ ~Sp1TimedOut
         /\ diff # <<>>
         /\ nativeResult[1].status = "Panic" ) => diff[1].equal

\* arithmetic with div and b = 0: both sides Panic, the guest's panic coming
\* back from a faithful executor as an error, and compare says equal
C8_Witness ==
    /\ entry = "run"
    /\ execMode = "faithful"
    /\ core = "arithmetic"
    /\ input \in ArithmeticInputs /\ input.operation = "div" /\ IsZero(input.b)
    /\ diff # <<>>
    /\ nativeResult[1].status = "Panic" /\ sp1Result[1].status = "Panic"
    /\ diff[1].equal

\* C9: with a faithful executor, whenever both runners return Ok the commits
\* the SP1 runner decoded equal the native commits value for value (the u64 of
\* timeout_test included).
C9_OkCommitsAgree ==
    ( /\ entry = "run"
      /\ execMode = "faithful"
      /\ nativeResult # <<>> /\ sp1Result # <<>>
      /\ nativeResult[1].status = "Ok" /\ sp1Result[1].status = "Ok" ) =>
      CommitsEqual(nativeResult[1].commits, sp1Result[1].commits)

\* C10: for each registered core the count the harness passes is positive and
\* is the number of values the native runner emits and the number of commit
\* calls of the guest adapter; the harness always passes --num-commits, and an
\* Ok result of the SP1 runner it started has exactly that many commits.
C10_ExpectedCommitCounts ==
    /\ \A c \in RegisteredCores : ExpectedCommits(c) > 0
    /\ \A r \in NativeProduced :
         (entry # "oracle" /\ r.status = "Ok") => Len(r.commits) = ExpectedCommits(core)
    /\ ( /\ entry \in { "run", "sp1_cli" }
         /\ sWorker = "finished"
         /\ GuestRun(core, input).kind = "returns" ) =>
           Len(GuestCommitList(core, GuestRun(core, input).out)) = ExpectedCommits(core)
    /\ (entry = "run" /\ sPc # "idle") => Sp1NumCommits = << ExpectedCommits(core) >>
    /\ \A r \in Sp1Produced :
         (entry = "run" /\ r.status = "Ok") => Len(r.commits) = ExpectedCommits(core)

\* the harness holds two Ok results of simple_struct, four commits each
C10_Witness ==
    /\ entry = "run"
    /\ core = "simple_struct"
    /\ nativeResult # <<>> /\ nativeResult[1].status = "Ok"
    /\ sp1Result # <<>> /\ sp1Result[1].status = "Ok"
    /\ Len(nativeResult[1].commits) = 4 /\ Len(sp1Result[1].commits) = 4

\* the number of entries of a catalogue for one operation
ArithmeticCount(list, op) ==
    Cardinality({ k \in 1..Len(list) : list[k].input_json.operation = op })

ArithmeticBoundarySet == { ArithmeticBoundaryValues[i] : i \in 1..Len(ArithmeticBoundaryValues) }

\* C19: the arithmetic catalogue draws a and b from the six boundary values for
\* each of add, sub, mul and div, never holds the pair (0, 0), and has at most
\* 6 entries for each operation
C19_ArithmeticCatalogue ==
    \A c \in 1..Len(genCalls) :
        genCalls[c].core_name = "arithmetic" =>
            LET list == genCalls[c].result.list
            IN  /\ genCalls[c].result.ok
                /\ \A k \in 1..Len(list) :
                     /\ list[k].input_json.a \in ArithmeticBoundarySet
                     /\ list[k].input_json.b \in ArithmeticBoundarySet
                     /\ ~(IsZero(list[k].input_json.a) /\ IsZero(list[k].input_json.b))
                /\ \A o \in 1..Len(ArithmeticOperations) :
                     /\ ArithmeticCount(list, ArithmeticOperations[o]) >= 1
                     /\ ArithmeticCount(list, ArithmeticOperations[o]) <= 6

\* the two calls of a pair were made with the same core name
SameCore(i, j) == genCalls[i].core_name = genCalls[j].core_name

\* C20: two calls of generate_mutations with the same core name return lists
\* of the same length with equal input and mutation_op at every index,
\* whatever the base input, and every entry carries the base input path it
\* was called with
C20_CatalogueDependsOnCoreOnly ==
    \A i, j \in 1..Len(genCalls) :
        SameCore(i, j) =>
            LET a == genCalls[i].result
                b == genCalls[j].result
            IN  /\ a.ok = b.ok
                /\ Len(a.list) = Len(b.list)
                /\ \A k \in 1..Len(a.list) :
                     /\ a.list[k].input_json = b.list[k].input_json
                     /\ a.list[k].mutation_op = b.list[k].mutation_op
                     /\ a.list[k].base_input_path = genCalls[i].base_input_path

C20_Witness ==
    \E i, j \in 1..Len(genCalls) :
        /\ SameCore(i, j)
        /\ genCalls[i].core_name = "fib"
        /\ genCalls[i].base_input_json # genCalls[j].base_input_json
        /\ genCalls[i].base_input_path # genCalls[j].base_input_path
        /\ genCalls[i].result.ok
        /\ Len(genCalls[i].result.list) > 0

\* a runner process is started and has not ended
NativeRunning == nPc \notin { "idle", "exited" }
Sp1Running == sPc \notin { "idle", "exited" }

\* the data rows of summary.csv
DataRows == IF csvFile = <<>> THEN 0 ELSE Len(csvFile) - 1

\* C11: the harness runs its runners one after the other: the zkVM runner is
\* started only when the native runner has returned its result, no two runner
\* processes run at once, and in a fuzz batch a runner of mutation k+1 runs
\* only when all k mutations before it have been compared and logged
C11_RunnersInSequence ==
    InHarness =>
        /\ ~(NativeRunning /\ Sp1Running)
        /\ sPc # "idle" => (nPc = "exited" /\ nativeResult # <<>>)
        /\ (entry = "fuzz" /\ (NativeRunning \/ Sp1Running)) =>
              /\ mutIdx >= 1
              /\ oracleCalls >= mutIdx - 1
              /\ DataRows = oracleCalls

\* the zkVM runner of the second mutation of a batch runs
C11_Witness ==
    /\ entry = "fuzz"
    /\ mutIdx = 2
    /\ Sp1Running
    /\ DataRows = 1

\* both runners have returned a RunResult that is not yet compared
PairPending == InHarness /\ nativeResult # <<>> /\ sp1Result # <<>> /\ diff = <<>>

\* the pair the harness holds is compared and its row is in summary.csv
PairPersisted ==
    /\ nativeResult # <<>> /\ sp1Result # <<>> /\ diff # <<>> /\ csvFile # <<>>
    /\ diff = << compare(nativeResult[1], sp1Result[1]) >>
    /\ hPc \notin { "compare", "log", "log_write", "repro", "csv", "fuzz_repro" }
    /\ DataRows = oracleCalls
    /\ LET row == csvFile[Len(csvFile)]
       IN  /\ row.native_status = nativeResult[1].status
           /\ row.sp1_status = sp1Result[1].status
           /\ row.equal = diff[1].equal
           /\ row.input = input

\* the pair is the output of the two runner processes, both run on the input file
\* of this comparison, and compare is called once for it: each call is followed
\* by one row before the next call
PairCompared ==
    InHarness =>
        /\ PairPending =>
              /\ hPc = "compare"
              /\ nPc = "exited" /\ sPc = "exited"
              /\ nativeResult = << RunResultFromJson(nExit[1].stdout[1]) >>
              /\ sp1Result = << RunResultFromJson(sExit[1].stdout[1]) >>
        /\ diff # <<>> =>
              /\ nativeResult # <<>> /\ sp1Result # <<>>
              /\ diff = << compare(nativeResult[1], sp1Result[1]) >>
        /\ DataRows = (IF hPc \in { "log", "log_write", "repro", "csv" }
                       THEN oracleCalls - 1 ELSE oracleCalls)

\* C12: whenever both runners have returned a RunResult, whatever the
\* statuses, the harness calls compare once on that pair, both results coming
\* from the same input file, and then appends the comparison's row to
\* summary.csv, in the single-shot and in the fuzz workflow; a Panic or a
\* Timeout of the guest skips neither
C12_PairComparedAndPersisted ==
    /\ [](PairCompared)
    /\ (PairPending ~> PairPersisted)

\* a pair with a Panic on the zkVM side is compared and logged in a fuzz batch
C12_Witness ==
    /\ entry = "fuzz"
    /\ sp1Result # <<>>
    /\ sp1Result[1].status = "Panic"
    /\ nativeResult[1].status = "Ok"
    /\ PairPersisted

\* the batch of timeout_test waits for the native runner of its first
\* mutation, iterations = 0
ZeroIterationsStarted ==
    /\ entry = "fuzz"
    /\ core = "timeout_test"
    /\ mutIdx = 1
    /\ hPc = "wait_native"
    /\ IsZero(input.iterations)

\* C18: for the first mutation of the timeout_test catalogue, iterations = 0,
\* both runners deliver Timeout with empty commits, the oracle reports
\* equal = true, and the comparison completes: the batch eventually logs it
\* (and goes on to the next mutation)
C18_ZeroIterationsLogged ==
    ZeroIterationsStarted ~>
        ( /\ DataRows >= 1
          /\ csvFile[2].native_status = "Timeout"
          /\ csvFile[2].sp1_status = "Timeout"
          /\ csvFile[2].equal )

\* this step appends a comparison's row to summary.csv
LogStep == Len(csvFile') > Len(csvFile)

\* the row the step has appended
NewRow == csvFile'[Len(csvFile')]

\* this step ends the logging of a comparison
LoggingEnds ==
    /\ hPc \in { "log", "log_write", "repro", "csv", "fuzz_repro" }
    /\ hPc' \notin { "log", "log_write", "repro", "csv", "fuzz_repro", "crashed" }

\* the last row of summary.csv once the step is taken
LastRow == csvFile'[Len(csvFile')]

\* C13: in both workflows the logging of a comparison creates the repro
\* folder artifacts/<run_id>/ with input.json, run_log.json and repro.sh if
\* and only if the comparison's equal is false, and the row's repro_path names
\* that folder if and only if equal is false and is empty otherwise; no other
\* step writes a repro folder
C13_ReproFolderIffDiverged ==
    [][ /\ reproDirs' # reproDirs =>
             /\ hPc \in { "repro", "fuzz_repro" }
             /\ ~diff[1].equal
        /\ LogStep =>
             /\ NewRow.equal = diff[1].equal
             /\ NewRow.repro_path = (IF NewRow.equal THEN <<>> ELSE << NewRow.run_id >>)
        /\ LoggingEnds =>
             /\ LastRow.equal = diff[1].equal
             /\ ~diff[1].equal =>
                  \E r \in reproDirs' :
                      /\ r.run_id = LastRow.run_id
                      /\ r.input_json = input
                      /\ r.repro_sh = [core |-> core, input |-> InputPath]
                      /\ r.run_log_json.native_result = nativeResult[1]
                      /\ r.run_log_json.sp1_result = sp1Result[1]
                      /\ r.run_log_json.diff = diff[1] ]_vars

\* a single-shot comparison that agreed and a fuzz comparison that diverged
\* are logged, with one repro folder
C13_Witness ==
    /\ DataRows = 2
    /\ Cardinality(reproDirs) = 1
    /\ \E i, j \in 2..Len(csvFile) :
         /\ csvFile[i].generator = "hand_written" /\ csvFile[i].equal
         /\ csvFile[i].repro_path = <<>>
         /\ csvFile[j].generator = "mutated" /\ ~csvFile[j].equal
         /\ csvFile[j].repro_path = << csvFile[j].run_id >>

\* C14: the run ids of the logged comparisons are pairwise distinct (comparisons
\* of one second get the suffix _N, counted from 2)
C14_RunIdsDistinct ==
    \A i, j \in 2..Len(csvFile) : i # j => csvFile[i].run_id # csvFile[j].run_id

\* C15: every logged comparison, of either workflow, has its RunLog in
\* artifacts/<run_id>.json, with both RunResults and the Diff of that
\* comparison, and a later comparison does not replace it
C15_OneJsonLogPerComparison ==
    \A k \in 2..Len(csvFile) :
        \E l \in jsonLogs :
            /\ l.run_id = csvFile[k].run_id
            /\ l.content # <<>>
            /\ l.content[1].input = csvFile[k].input
            /\ l.content[1].native_result.status = csvFile[k].native_status
            /\ l.content[1].sp1_result.status = csvFile[k].sp1_status
            /\ l.content[1].diff.equal = csvFile[k].equal

\* C16: no file artifacts/<run_id>.json ever holds less than a whole RunLog,
\* also when the process is stopped while it writes
C16_JsonLogNeverPartial ==
    \A l \in jsonLogs : l.content # <<>>

\* the first row is the header and it is the only header
HeaderFirst ==
    csvFile # <<>> =>
        /\ csvFile[1] = CsvHeader
        /\ \A k \in 2..Len(csvFile) : csvFile[k].kind = "row"

\* C17: summary.csv is only appended to: over any sequence of single-shot and
\* fuzz comparisons, of several harness runs, it holds one header row, as its
\* first row; each logged comparison adds exactly one data row after the rows
\* before it, which stay as they are; nothing else changes the file
C17_CsvAppendOnly ==
    /\ [](HeaderFirst)
    /\ [][ /\ LoggingEnds =>
                /\ LastRow.native_status = nativeResult[1].status
                /\ LastRow.sp1_status = sp1Result[1].status
                /\ LastRow.input = input
           /\ csvFile' # csvFile =>
                /\ hPc \in { "log", "csv" } /\ hPc' \notin { "log", "csv" }
                /\ Len(csvFile') = (IF csvFile = <<>> THEN 2 ELSE Len(csvFile) + 1)
                /\ SubSeq(csvFile', 1, Len(csvFile)) = csvFile
                /\ NewRow.kind = "row"
                /\ NewRow.native_status = nativeResult[1].status
                /\ NewRow.sp1_status = sp1Result[1].status ]_vars

\* a row of a fuzz batch follows the row of a single-shot run in a file that
\* an earlier harness run began
C17_Witness ==
    /\ Len(csvFile) = 3
    /\ csvFile[2].generator = "hand_written"
    /\ csvFile[3].generator = "mutated"

\* C23: in every Diff compare returns, reason is present exactly when equal is
\* false; it starts with "status mismatch" when the statuses differ and with
\* "commit stream mismatch" when both are Ok and the commits differ.
C23_ReasonIffNotEqual ==
    diff # <<>> =>
      /\ (diff[1].reason # <<>>) <=> ~diff[1].equal
      /\ nativeResult[1].status # sp1Result[1].status =>
            /\ diff[1].reason # <<>>
            /\ diff[1].reason[1].prefix = "status mismatch"
      /\ ( /\ nativeResult[1].status = "Ok" /\ sp1Result[1].status = "Ok"
           /\ nativeResult[1].commits # sp1Result[1].commits ) =>
            /\ diff[1].reason # <<>>
            /\ diff[1].reason[1].prefix = "commit stream mismatch"

\* two Panic results with different commits: equal, and no reason
C23_Witness ==
    /\ entry = "oracle"
    /\ diff # <<>>
    /\ nativeResult[1].status = "Panic" /\ sp1Result[1].status = "Panic"
    /\ nativeResult[1].commits # sp1Result[1].commits
    /\ diff[1].equal /\ diff[1].reason = <<>>

\* C24: compare attaches timing_delta_ms on each of its three outcomes; its
\* value is the absolute difference of the two elapsed_ms, never negative, and
\* the same when the two results are swapped.
C24_TimingDelta ==
    diff # <<>> =>
      /\ diff[1].timing_delta_ms # <<>>
      /\ diff[1].timing_delta_ms[1] >= 0
      /\ \/ diff[1].timing_delta_ms[1] = nativeResult[1].elapsed_ms - sp1Result[1].elapsed_ms
         \/ diff[1].timing_delta_ms[1] = sp1Result[1].elapsed_ms - nativeResult[1].elapsed_ms
      /\ compare(sp1Result[1], nativeResult[1]).timing_delta_ms = diff[1].timing_delta_ms

\* an equal pair whose native side took longer than the zkVM side
C24_Witness ==
    /\ entry = "oracle"
    /\ diff # <<>>
    /\ diff[1].equal
    /\ nativeResult[1].elapsed_ms > sp1Result[1].elapsed_ms
    /\ diff[1].timing_delta_ms = << nativeResult[1].elapsed_ms - sp1Result[1].elapsed_ms >>

\* C25: the verdict depends on the statuses and the commits only: any two
\* results with the statuses and commits of the compared pair, whatever their
\* meta and elapsed_ms, get the same equal.
C25_VerdictIgnoresMetaAndTiming ==
    diff # <<>> =>
      \A e1, e2 \in 0..MaxElapsedMs, m1, m2 \in { <<>>, << "boom" >> } :
        compare([nativeResult[1] EXCEPT !.elapsed_ms = e1, !.meta = NativeMeta(m1, <<>>)],
                [sp1Result[1] EXCEPT !.elapsed_ms = e2, !.meta = Sp1Meta(m2, <<>>, <<>>)]).equal
          = diff[1].equal

\* an equal pair of Ok results that differ in meta and in elapsed_ms
C25_Witness ==
    /\ entry = "oracle"
    /\ diff # <<>>
    /\ diff[1].equal
    /\ nativeResult[1].status = "Ok" /\ sp1Result[1].status = "Ok"
    /\ nativeResult[1].elapsed_ms # sp1Result[1].elapsed_ms
    /\ nativeResult[1].meta.panic_msg # sp1Result[1].meta.panic_msg

\* the mutation_op tags of a catalogue are pairwise different
TagsDistinct(list) ==
    \A j, k \in 1..Len(list) : j # k => list[j].mutation_op # list[k].mutation_op

\* C21: each of the six catalogues has at least one element and a finite
\* length, and no two elements of one catalogue carry the same mutation_op tag;
\* the io_echo size tags, rounded down to whole kb or mb, stay distinct.
C21_CataloguesNonEmptyTagsDistinct ==
    \A c \in 1..Len(genCalls) :
        genCalls[c].core_name \in RegisteredCores =>
            /\ genCalls[c].result.ok
            /\ Len(genCalls[c].result.list) \in 1..ArithmeticCap + Len(IoEchoAllSizes)
            /\ TagsDistinct(genCalls[c].result.list)

\* an io_echo catalogue whose sizes 4095 and 4096 carry the tags 3kb and 4kb
C21_Witness ==
    \E c \in 1..Len(genCalls) :
        /\ genCalls[c].core_name = "io_echo"
        /\ \E j, k \in 1..Len(genCalls[c].result.list) :
              /\ genCalls[c].result.list[j].input_json.data = RampData(4095)
              /\ genCalls[c].result.list[j].mutation_op.n = 3
              /\ genCalls[c].result.list[k].input_json.data = RampData(4096)
              /\ genCalls[c].result.list[k].mutation_op.n = 4

\* the sizes the io_echo catalogue is to hold
IoEchoSizeSet ==
    { 0 } \cup { 2^k : k \in 0..20 } \cup { 127, 255, 1023, 4095, 65535 } \cup { 3, 7, 15, 31, 63 }

\* C22: the io_echo catalogue holds exactly one input per size of the union of
\* the powers of two 0, 1, 2, 4, ..., 1048576, the boundaries and the edge
\* cases, in rising order of size, each with data[i] = i mod 256; on it
\* calculate_size_stats gives min_size = 0, max_size = 1048576 and a count of
\* at least 27.
C22_IoEchoCatalogue ==
    \A c \in 1..Len(genCalls) :
        genCalls[c].core_name = "io_echo" =>
            LET list == genCalls[c].result.list
                size(k) == list[k].input_json.data.ramp
            IN  /\ genCalls[c].result.ok
                /\ { size(k) : k \in 1..Len(list) } = IoEchoSizeSet
                /\ Len(list) = Cardinality(IoEchoSizeSet)
                /\ \A k \in 1..(Len(list) - 1) : size(k) < size(k + 1)
                /\ \A k \in 1..Len(list) :
                     size(k) <= 4096 =>
                       LET data == InputFile(list[k].input_json).data
                       IN  /\ Len(data) = size(k)
                           /\ \A i \in 0..(size(k) - 1) : data[i + 1] = i % 256
                /\ genCalls[c].stats # <<>>
                /\ genCalls[c].stats[1].min_size = << 0 >>
                /\ genCalls[c].stats[1].max_size = << 1048576 >>
                /\ genCalls[c].stats[1].total_count >= 27

\* an io_echo catalogue of 32 entries, the first empty and the last of 1 MiB
C22_Witness ==
    \E c \in 1..Len(genCalls) :
        /\ genCalls[c].core_name = "io_echo"
        /\ genCalls[c].result.ok
        /\ Len(genCalls[c].result.list) = 32
        /\ genCalls[c].result.list[1].input_json.data = RampData(0)
        /\ genCalls[c].result.list[32].input_json.data = RampData(1048576)
        /\ genCalls[c].stats[1].total_count = 32

\* a committed u32 or u64 as the JSON number of the same value
AsJsonNumber(bytes) == bytes \o Zeros(8 - Len(bytes))

\* C26: the native runner and the guest adapter of a core encode the core's
\* output as the same values in the same order: a bool as the u32 0 or 1, an
\* Option<u8> as 0 for None and 1 + b for Some(b), which lies in 0..256 and
\* keeps Some(0) apart from None; io_echo gives [0, 0, 0] for empty data and
\* [1, 43, 43] for the data [42].
C26_SameEncoding ==
    /\ LEToNat(BoolToU32(FALSE)) = 0 /\ LEToNat(BoolToU32(TRUE)) = 1
    /\ LEToNat(OptionU8ToU32(<<>>)) = 0
    /\ \A b \in 0..255 : LEToNat(OptionU8ToU32(<< b >>)) = 1 + b
    /\ (nativeResult # <<>> /\ nativeResult[1].status = "Ok") =>
         LET guest == GuestCommitList(core, CoreRun(core, input).out)
         IN  /\ nativeResult[1].commits = [i \in 1..Len(guest) |-> AsJsonNumber(guest[i])]
             /\ (core = "io_echo" /\ input.data = <<>>) =>
                   nativeResult[1].commits = << AsJsonNumber(LE4(0)), AsJsonNumber(LE4(0)),
                                                AsJsonNumber(LE4(0)) >>
             /\ (core = "io_echo" /\ input.data = << 42 >>) =>
                   nativeResult[1].commits = << AsJsonNumber(LE4(1)), AsJsonNumber(LE4(43)),
                                                AsJsonNumber(LE4(43)) >>

\* the native runner has echoed the data [42] as [1, 43, 43]
C26_Witness ==
    /\ entry = "run" /\ core = "io_echo"
    /\ input \in IoEchoInputs /\ input.data = << 42 >>
    /\ nativeResult # <<>> /\ nativeResult[1].status = "Ok"
    /\ nativeResult[1].commits[2] = ToValueU32(LE4(43))

\* the pair after k applications of (a, b) := (b, (a + b) mod 7919) to (0, 1)
FibPairAfter(n) ==
    LET f[k \in 0..n] == IF k = 0 THEN << 0, 1 >>
                          ELSE LET prev == f[k - 1]
                               IN  << prev[2], (prev[1] + prev[2]) % 7919 >>
    IN  f[n]

\* C28: fib run(n) returns n with the pair (a, b) got by applying
\* (a, b) := (b, (a + b) mod 7919) n times to (0, 1): (0, 1) for n = 0, (1, 1)
\* for n = 1, (55, 89) for n = 10; the native runner commits [n, a, b].
C28_FibRun ==
    /\ \A i \in FibInputs :
         /\ fib_run(i).kind = "returns"
         /\ fib_run(i).out.n = i.n
         /\ LEToNat(fib_run(i).out.a) = FibPairAfter(LEToNat(i.n))[1]
         /\ LEToNat(fib_run(i).out.b) = FibPairAfter(LEToNat(i.n))[2]
    /\ FibPairAfter(0) = << 0, 1 >> /\ FibPairAfter(1) = << 1, 1 >>
    /\ FibPairAfter(10) = << 55, 89 >>
    /\ (core = "fib" /\ nativeResult # <<>> /\ nativeResult[1].status = "Ok") =>
         nativeResult[1].commits =
           << ToValueU32(input.n),
              ToValueU32(LE4(FibPairAfter(LEToNat(input.n))[1])),
              ToValueU32(LE4(FibPairAfter(LEToNat(input.n))[2])) >>

\* the native runner has run fib on n = 10 and committed [10, 55, 89]
C28_Witness ==
    /\ entry = "run" /\ core = "fib"
    /\ nativeResult # <<>> /\ nativeResult[1].status = "Ok"
    /\ nativeResult[1].commits =
         << ToValueU32(LE4(10)), ToValueU32(LE4(55)), ToValueU32(LE4(89)) >>

\* an operand below 2^15: sums and products of two of them fit a machine integer
IsLowOperand(x) == x[2] < 128 /\ x[3] = 0 /\ x[4] = 0

\* 2^32 - d for d in 1..2^31 - 1
WrapBelowZero(d) == [LE4(2147483647 - (d - 1)) EXCEPT ![4] = @ + 128]

\* the exact result of add, sub and mul on two low operands, reduced mod 2^32,
\* with its overflow flag; the floor quotient for div
ArithmeticExact(a, b, op) ==
    CASE op = "add" -> [result |-> LE4(a + b), overflowed |-> FALSE]
      [] op = "sub" -> IF a >= b THEN [result |-> LE4(a - b), overflowed |-> FALSE]
                       ELSE [result |-> WrapBelowZero(b - a), overflowed |-> TRUE]
      [] op = "mul" -> [result |-> LE4(a * b), overflowed |-> FALSE]
      [] op = "div" -> [result |-> LE4(a \div b), overflowed |-> FALSE]

\* the input is one the claim speaks of with a result known beforehand
ArithmeticPanicExpected(i) ==
    \/ i.operation \notin { "add", "sub", "mul", "div" }
    \/ i.operation = "div" /\ IsZero(i.b)

ArithmeticTableRows(i) ==
    { r \in ArithmeticTable : r.a = i.a /\ r.b = i.b /\ r.operation = i.operation }

\* what the worker has sent for the input
WorkerSent == nChan[1]

\* C29: arithmetic run gives for add, sub and mul the exact result reduced
\* mod 2^32, with overflowed = true exactly when the exact result is outside
\* 0..2^32 - 1 (MAX + 1 gives 0, true; 0 - 1 gives MAX, true); for div with
\* b # 0 the floor quotient with overflowed = false; div with b = 0 and an
\* unknown operation panic.
C29_ArithmeticRun ==
    ( /\ core = "arithmetic" /\ DecodeOk(core, input)
      /\ nWorker = "finished" /\ nChan # <<>> ) =>
        IF ArithmeticPanicExpected(input)
        THEN WorkerSent.ok /\ WorkerSent.result[1].status = "Panic"
        ELSE /\ WorkerSent.ok /\ WorkerSent.result[1].status = "Ok"
             /\ \A r \in ArithmeticTableRows(input) :
                  WorkerSent.result[1].commits =
                    << ToValueU32(r.result), ToValueU32(BoolToU32(r.overflowed)) >>
             /\ (IsLowOperand(input.a) /\ IsLowOperand(input.b)) =>
                  LET x == ArithmeticExact(LEToNat(input.a), LEToNat(input.b), input.operation)
                  IN  WorkerSent.result[1].commits =
                        << ToValueU32(x.result), ToValueU32(BoolToU32(x.overflowed)) >>

\* the worker has multiplied 65535 by 65537 to MAX without overflow
C29_Witness ==
    /\ entry = "native_worker"
    /\ input.operation = "mul" /\ input.a = LE4(65535) /\ input.b = LE4(65537)
    /\ nWorker = "finished" /\ nChan # <<>>
    /\ nChan[1].result[1].commits = << ToValueU32(U32Max), ToValueU32(LE4(0)) >>

\* C27: the repro.sh of a repro folder runs the single-shot workflow on the
\* input.json kept in that folder, so that the folder is enough to run the
\* case again once the input file the comparison was given is gone.
C27_ReproScriptRunsPreservedInput ==
    \A d \in reproDirs : d.repro_sh.input = ReproInputCopy(d.run_id)

\* C30: the records of a comparison are written after compare has returned
\* and its repro folder after them, so that at no time a row of summary.csv
\* with a repro_path refers to a folder that is missing or incomplete.
C30_ReproPathNeverDangling ==
    /\ (csvFile # <<>> \/ jsonLogs # {} \/ reproDirs # {}) => oracleCalls >= 1
    /\ \A k \in 2..Len(csvFile) :
         csvFile[k].repro_path # <<>> =>
           \E r \in reproDirs :
               /\ r.run_id = csvFile[k].repro_path[1]
               /\ r.input_json = csvFile[k].input
               /\ r.run_log_json.diff.equal = csvFile[k].equal

\* C37: the verdict of compare is symmetric and reflexive: compare(a, b) and
\* compare(b, a) have the same equal and the same timing_delta_ms, and
\* compare(a, a) has equal = true with timing_delta_ms = 0.
C37_CompareSymmetricReflexive ==
    diff # <<>> =>
      LET a == nativeResult[1]
          b == sp1Result[1]
      IN  /\ compare(b, a).equal = diff[1].equal
          /\ compare(b, a).timing_delta_ms = diff[1].timing_delta_ms
          /\ compare(a, a).equal /\ compare(a, a).timing_delta_ms = << 0 >>
          /\ compare(b, b).equal /\ compare(b, b).timing_delta_ms = << 0 >>

\* a Timeout against an Ok result that took less time: not equal either way round
C37_Witness ==
    /\ entry = "oracle"
    /\ diff # <<>>
    /\ nativeResult[1].status = "Timeout" /\ sp1Result[1].status = "Ok"
    /\ nativeResult[1].elapsed_ms > sp1Result[1].elapsed_ms
    /\ ~diff[1].equal
    /\ ~compare(sp1Result[1], nativeResult[1]).equal

\* C35: in fib run, after every round of the loop a and b are at most 7918,
\* so the u32 addition a + b never overflows, and run returns, without a
\* panic, after exactly n rounds, for every n.
C35_FibLoopBounded ==
    fibLoop # <<>> =>
      /\ fibLoop[1].pc # "overflow"
      /\ LEToNat(fibLoop[1].a) <= 7918 /\ LEToNat(fibLoop[1].b) <= 7918
      /\ fibLoop[1].i > 0 => LEToNat(fibLoop[1].b) < 7919
      /\ fibLoop[1].i <= fibLoop[1].n
      /\ fibLoop[1].pc = "loop" => ENABLED FibNext
      /\ fibLoop[1].pc = "returned" =>
            /\ fibLoop[1].i = fibLoop[1].n
            /\ fibLoop[1].n <= 10 =>
                  fib_run([schema |-> "fib", n |-> LE4(fibLoop[1].n)]).out
                    = [n |-> LE4(fibLoop[1].n), a |-> fibLoop[1].a, b |-> fibLoop[1].b]

\* the pair (a, b) is back at (0, 1) after some rounds: the rounds after it
\* repeat the ones before, whatever n
C35_Witness ==
    /\ fibLoop # <<>>
    /\ fibLoop[1].i > 0
    /\ fibLoop[1].a = LE4(0) /\ fibLoop[1].b = LE4(1)

\* C33: a panic the native runner has caught gives elapsed_ms = 0, while an
\* error of the zkVM executor gives the time measured around execute; so
\* when both sides report Panic the Diff has equal = true and a
\* timing_delta_ms that is the elapsed_ms of the zkVM side.
C33_PanicTiming ==
    /\ \A r \in NativeProduced : r.status = "Panic" => r.elapsed_ms = 0
    /\ \A r \in Sp1Produced : r.status = "Panic" => r.elapsed_ms \in 0..MaxElapsedMs
    /\ ( /\ InHarness /\ diff # <<>>
         /\ nativeResult[1].status = "Panic" /\ sp1Result[1].status = "Panic" ) =>
           /\ diff[1].equal
           /\ diff[1].timing_delta_ms = << sp1Result[1].elapsed_ms >>

\* both sides panicked, the zkVM side after a measured time above 0
C33_Witness ==
    /\ InHarness /\ diff # <<>>
    /\ nativeResult[1].status = "Panic" /\ sp1Result[1].status = "Panic"
    /\ nativeResult[1].elapsed_ms = 0
    /\ sp1Result[1].elapsed_ms > 0
    /\ diff[1].equal
    /\ diff[1].timing_delta_ms = << sp1Result[1].elapsed_ms >>

\* the step stays inside the runner call: no new process is started
SameCall(pc2) == pc2 \in { "recv", "join", "exited" }

\* one step of a runner call, for the worker w, the channel ch, the outcome o
\* and the position pc of the call (primed copies w2, ch2, o2, pc2)
RunnerCallStep(w, w2, ch, ch2, o, o2, pc, pc2) ==
    /\ (w2 = "ready" /\ w # "ready") => (pc = "main" /\ pc2 = "recv")
    /\ Len(ch2) > Len(ch) =>
          /\ ch = <<>> /\ Len(ch2) = 1
          /\ w \in { "ready", "running", "executing" } /\ w2 = "finished"
    /\ (w \in { "finished", "panicked" } /\ SameCall(pc2)) =>
          (w2 = w /\ Len(ch2) <= Len(ch))
    /\ (o # <<>> /\ SameCall(pc2)) => o2 = o

\* the state of a runner call: at most one message, one outcome once received
RunnerCallState(ch, o, pc, exit) ==
    /\ Len(ch) <= 1 /\ Len(o) <= 1
    /\ pc = "join" => Len(o) = 1
    /\ (pc = "exited" /\ o # <<>>) => exit = << ExitOf(o[1]) >>
    /\ (o # <<>> /\ o[1].ok /\ o[1].result[1].status = "Timeout" /\ exit # <<>>) =>
          exit[1] = [code |-> 0, stdout |-> << RunResultToJson(o[1].result[1]) >>]

\* C34: a runner call spawns exactly one worker, which sends at most one
\* message; the call hands its caller exactly one outcome; a result the
\* worker sends after the deadline expired is discarded and never replaces
\* or accompanies the Timeout result.
C34_OneWorkerOneOutcome ==
    /\ [](RunnerCallState(nChan, nOutcome, nPc, nExit))
    /\ [](RunnerCallState(sChan, sOutcome, sPc, sExit))
    /\ [][ /\ RunnerCallStep(nWorker, nWorker', nChan, nChan', nOutcome, nOutcome', nPc, nPc')
           /\ RunnerCallStep(sWorker, sWorker', sChan, sChan', sOutcome, sOutcome', sPc, sPc')
         ]_vars

\* the native worker sent its result after the deadline: the call ended with
\* the Timeout result alone, the late message still in the dropped channel
C34_Witness ==
    /\ nPc = "exited"
    /\ nWorker = "finished"
    /\ Len(nChan) = 1 /\ nChan[1].ok /\ nChan[1].result[1].status = "Ok"
    /\ nOutcome = << OkResult(NativeTimeoutResult(timeoutArg)) >>
    /\ nExit = << ExitOf(OkResult(NativeTimeoutResult(timeoutArg))) >>

\* the data rows of summary.csv written for the core c
CsvRowsOf(c) ==
    Cardinality({ i \in 1..Len(csvFile) : csvFile[i].kind = "row" /\ csvFile[i].core = c })

\* the sum of the field f over the first k results fuzz_single_core returned
RECURSIVE SumResults(_, _)
SumResults(k, f) == IF k = 0 THEN 0 ELSE fuzzResults[k][f] + SumResults(k - 1, f)

\* a runner process of a fuzz batch ended with a runner-level error
RunnerErrorInBatch ==
    /\ entry = "fuzz" /\ hPc = "failed"
    /\ hError \in { << "native-runner failed" >>, << "sp1-runner failed" >> }

\* C38: when fuzz_single_core returns for a core, passed + divergences =
\* total = the number of generated mutations = the number of CSV rows
\* appended for that core; the totals of run_fuzzing are the sums of the
\* per-core values; a runner-level error stops the batch at that mutation:
\* no later mutation or core is run and the rows already appended stay as
\* they are.
C38_FuzzTotals ==
    /\ [](\A k \in 1..Len(fuzzResults) :
            LET r == fuzzResults[k]
            IN  /\ r.passed + r.divergences = r.total
                /\ r.total = Len(Mutations(r.core_name).list)
                /\ CsvRowsOf(r.core_name) = r.total)
    /\ [](totals = [total_mutations |-> SumResults(Len(fuzzResults), "total"),
                    total_passed |-> SumResults(Len(fuzzResults), "passed"),
                    total_divergences |-> SumResults(Len(fuzzResults), "divergences")])
    /\ [](RunnerErrorInBatch =>
            /\ CsvRowsOf(core) = mutIdx - 1
            /\ passed + divergences = mutIdx - 1
            /\ cores_to_fuzz # <<>> /\ cores_to_fuzz[1] = core
            /\ \A k \in 2..Len(cores_to_fuzz) : CsvRowsOf(cores_to_fuzz[k]) = 0)
    /\ [][ /\ Len(csvFile') >= Len(csvFile)
           /\ SubSeq(csvFile', 1, Len(csvFile)) = csvFile
           /\ RunnerErrorInBatch =>
                 UNCHANGED << csvFile, hPc, mutIdx, cores_to_fuzz, fuzzResults, totals,
                              nPc, sPc, oracleCalls >>
         ]_vars

\* a batch of two cores ended: both calls returned, the first with passes and
\* divergences, and the totals count the thirteen mutations of the two cores
C38_Witness ==
    /\ entry = "fuzz" /\ hPc = "done"
    /\ Len(fuzzResults) = 2
    /\ fuzzResults[1].core_name = "panic_test" /\ fuzzResults[2].core_name = "timeout_test"
    /\ fuzzResults[1].passed > 0 /\ fuzzResults[1].divergences > 0
    /\ fuzzResults[2].passed > 0 /\ fuzzResults[2].divergences > 0
    /\ totals.total_mutations = 13
    /\ totals.total_passed = fuzzResults[1].passed + fuzzResults[2].passed
    /\ totals.total_divergences + totals.total_passed = 13
    /\ CsvRowsOf("panic_test") = 4 /\ CsvRowsOf("timeout_test") = 9

\* a batch stopped by a runner-level error in the second round of its first
\* core, one row written and a core left to fuzz
C38_StoppedWitness ==
    /\ RunnerErrorInBatch
    /\ mutIdx = 2 /\ CsvRowsOf(core) = 1 /\ Len(cores_to_fuzz) = 2

\* the fields of the input record the core c decodes
InputRecordFields(c) ==
    CASE c = "fib" -> { "n" }
      [] c = "panic_test" -> { "should_panic", "panic_msg" }
      [] c = "timeout_test" -> { "iterations" }
      [] c = "io_echo" -> { "data" }
      [] c = "arithmetic" -> { "a", "b", "operation" }
      [] c = "simple_struct" -> { "field1", "field2", "field3" }
      [] OTHER -> {}

\* the keys of the JSON object a mutation carries
GeneratedFields(json) == DOMAIN json \ { "schema" }

\* C36: every mutated input uses exactly the field names of its core's
\* input record, so that every generated field is read and none is missing
\* or ignored; the panic message generated for a panic_test mutation is the
\* message the core panics with.
C36_MutatedInputsRead ==
    ( /\ entry = "fuzz"
      /\ hPc \notin { "fuzz_start", "fuzz_core", "failed" }
      /\ mutIdx \in 1..Len(Mutations(core).list) ) =>
        LET json == Mutations(core).list[mutIdx].input_json
        IN  /\ GeneratedFields(json) = InputRecordFields(core)
            /\ ( /\ core = "panic_test"
                 /\ nativeResult # <<>>
                 /\ nativeResult[1].status = "Panic" ) =>
                   nativeResult[1].meta.panic_msg = << json.panic_message >>

\* the guest build of the current core or run failed
BuildFailed == hError = << "cargo prove build failed" >>

\* fuzz_single_core is past its build step for the current core
PastBuild ==
    hPc \in { "fuzz_iter", "native", "wait_native", "zkvm", "wait_sp1", "compare", "log",
              "fuzz_repro" }

\* C31: without skip_build the guest build runs before any runner is
\* started, once in a single run and exactly once per core of a fuzz batch,
\* and a failed build is fatal: no runner is started and no comparison is
\* recorded for that core; with skip_build the build tool never runs.
C31_BuildOncePerCore ==
    /\ [](skip_build => builds = 0)
    /\ []((~skip_build /\ entry = "run") =>
            /\ builds = (IF hPc = "start" THEN 0 ELSE 1)
            /\ (nPc # "idle" \/ sPc # "idle") => (builds = 1 /\ ~BuildFailed))
    /\ []((~skip_build /\ entry = "fuzz") =>
            /\ PastBuild => builds = Len(fuzzResults) + 1
            /\ hPc \in { "fuzz_start", "fuzz_core", "done" } => builds = Len(fuzzResults)
            /\ BuildFailed => builds = Len(fuzzResults) + 1)
    /\ [](BuildFailed =>
            /\ ~skip_build /\ hPc = "failed"
            /\ CsvRowsOf(core) = 0
            /\ \A l \in jsonLogs : l.run_id.core # core
            /\ entry = "run" => (nPc = "idle" /\ sPc = "idle" /\ diff = <<>>))
    /\ [][ /\ (nPc' = "main" /\ nPc # "main") =>
                (skip_build \/ (builds >= 1 /\ ~BuildFailed))
           /\ BuildFailed => UNCHANGED << nPc, sPc, oracleCalls, csvFile, jsonLogs, builds >>
         ]_vars

\* a batch of two cores built each guest once and ended
C31_Witness ==
    /\ ~skip_build /\ entry = "fuzz" /\ hPc = "done"
    /\ Len(fuzzResults) = 2 /\ builds = 2

\* the build of the second core of a batch failed: the batch stopped with the
\* rows of the first core alone
C31_FailedBuildWitness ==
    /\ BuildFailed /\ entry = "fuzz" /\ Len(fuzzResults) = 1 /\ builds = 2
    /\ CsvRowsOf(fuzzResults[1].core_name) = fuzzResults[1].total
    /\ CsvRowsOf(core) = 0

\* where the native worker did the step named s: 0 when it has not
StepAt(s) ==
    IF \E i \in 1..Len(nSteps) : nSteps[i] = s
    THEN CHOOSE i \in 1..Len(nSteps) : nSteps[i] = s
    ELSE 0

\* C32: on success the elapsed_ms of the native runner covers the core call
\* alone: the timer is started after the input bytes were decoded and is
\* stopped before the output is turned into commit values.
C32_TimerCoversCoreOnly ==
    StepAt("elapsed") > 0 =>
        /\ 0 < StepAt("from_slice")
        /\ StepAt("from_slice") < StepAt("Instant::now")
        /\ StepAt("Instant::now") < StepAt("run")
        /\ StepAt("run") < StepAt("elapsed")
        /\ StepAt("elapsed") < StepAt("to_value")

\* what the worker does: the timer runs over the decoding, the core call and
\* the making of the commit values
TimerCoversDispatch ==
    StepAt("elapsed") > 0 =>
        nSteps = << "Instant::now", "from_slice", "run", "to_value", "elapsed" >>

=============================================================================
